---- MODULE Spec2Model ----
(***************************************************************************)
(* A model of the zpars crate: the ZPS1 block codec of src/src/codec.rs    *)
(* (stream framing, LZ77 encoder and decoder) and the ZPAQ scanner of      *)
(* src/src/zpaq.rs (block headers, segments of unmodeled blocks).          *)
(*                                                                         *)
(* TLC's integers are 32-bit signed.  A Rust u32 or usize that the model   *)
(* only meets below 2^31 is an Int; block_size, the one usize              *)
(* that validation leaves unbounded above, is a two-limb number            *)
(* [hi, lo] = hi * 2^32 + lo, and hash_slice works on 16-bit halves.       *)
(***************************************************************************)
EXTENDS Integers, Sequences, FiniteSets, TLC

\* ------------------------------------------------------------------ bounds

\* Longest input handed to compress.
MaxInput == 4
\* Longest encoded block of a hand-made stream handed to decompress.
MaxPayload == 5
\* Largest expected length given to a single call of the decoder.
MaxExpected == 3
\* Longest literal run given to a single call of emit_literals.
MaxLiterals == 130
\* Length of the repeated stretch of a long input of compress.
MaxRun == 70

\* --------------------------------------------------------------- constants

VERSION == 1
MAGIC == <<90, 80, 83, 49>>

Null == "null"

\* ------------------------------------------------------------ numbers, bytes

Min2(a, b) == IF a < b THEN a ELSE b

RECURSIVE Pow2(_)
Pow2(n) == IF n = 0 THEN 1 ELSE 2 * Pow2(n - 1)

RECURSIVE BitXor(_, _)
BitXor(a, b) ==
    IF a = 0 THEN b
    ELSE IF b = 0 THEN a
    ELSE LET bit(k) == ((a \div k) + (b \div k)) % 2 IN
         bit(1) + 2 * bit(2) + 4 * bit(4) + 8 * bit(8)
             + 16 * BitXor(a \div 16, b \div 16)

\* usize: hi * 2^32 + lo, 0 <= lo < 2^31 in the model.
Wide(n) == [hi |-> 0, lo |-> n]
\* `v as u32` keeps the low 32 bits.
AsU32(w) == w.lo
\* `v as u8` keeps the low 8 bits.
AsU8(n) == n % 256
WideIsZero(w) == w.hi = 0 /\ w.lo = 0
\* min(n, w) for an n below 2^31.
MinWide(n, w) == IF w.hi > 0 THEN n ELSE Min2(n, w.lo)

\* u32::to_le_bytes
to_le_bytes(v) ==
    << v % 256, (v \div 256) % 256, (v \div 65536) % 256, (v \div 16777216) % 256 >>
\* u32::from_le_bytes (the top byte stays below 128 in the model)
from_le_bytes(b) == b[1] + 256 * b[2] + 65536 * b[3] + 16777216 * b[4]

Take(s, n) == SubSeq(s, 1, n)
Drop(s, n) == SubSeq(s, n + 1, Len(s))

\* ------------------------------------------------------------------ errors

Err(kind, arg) == [kind |-> kind, arg |-> arg]
Ok == [kind |-> "Ok", arg |-> Null]
IoEof == Err("Io", "UnexpectedEof")
IsOk(e) == e.kind = "Ok"

\* ----------------------------------------------------------------- options

CompressionOptions(bs, mm, sm, sl, tl) ==
    [block_size |-> bs, min_match |-> mm, secondary_match |-> sm,
     search_log |-> sl, table_log |-> tl]

\* validate_options without the lower bound of table_log.
validate_options_no_floor(options) ==
    IF options.min_match = 0 \/ options.min_match > 64
        THEN Err("InvalidOption", "min-match must be 1..=64")
    ELSE IF options.secondary_match > 64
        THEN Err("InvalidOption", "secondary-match must be 0..=64")
    ELSE IF WideIsZero(options.block_size)
        THEN Err("InvalidOption", "block-size must be > 0")
    ELSE IF options.search_log > 10
        THEN Err("InvalidOption", "search-log must be <= 10")
    ELSE IF options.table_log > 28
        THEN Err("InvalidOption", "table-log must be 8..=28")
    ELSE Ok

validate_options(options) ==
    IF options.min_match = 0 \/ options.min_match > 64
        THEN Err("InvalidOption", "min-match must be 1..=64")
    ELSE IF options.secondary_match > 64
        THEN Err("InvalidOption", "secondary-match must be 0..=64")
    ELSE IF WideIsZero(options.block_size)
        THEN Err("InvalidOption", "block-size must be > 0")
    ELSE IF options.search_log > 10
        THEN Err("InvalidOption", "search-log must be <= 10")
    ELSE IF ~(options.table_log >= 8 /\ options.table_log <= 28)
        THEN Err("InvalidOption", "table-log must be 8..=28")
    ELSE Ok

\* ----------------------------------------------------------- stream framing

\* write_stream_header with a two-byte block_size field.
write_stream_header_short(out, options) ==
    out \o MAGIC \o << VERSION >>
        \o Take(to_le_bytes(AsU32(options.block_size)), 2)
        \o << AsU8(options.min_match) >>
        \o << AsU8(options.secondary_match) >>
        \o << options.search_log >>
        \o << options.table_log >>

write_stream_header(out, options) ==
    out \o MAGIC \o << VERSION >>
        \o to_le_bytes(AsU32(options.block_size))
        \o << AsU8(options.min_match) >>
        \o << AsU8(options.secondary_match) >>
        \o << options.search_log >>
        \o << options.table_log >>

\* read_exact that reports a short input as a corrupt stream.
read_exact_corrupt(input, n) ==
    IF Len(input) < n
        THEN [err |-> Err("Corrupt", "truncated input"), bytes |-> << >>, rest |-> << >>]
        ELSE [err |-> Ok, bytes |-> Take(input, n), rest |-> Drop(input, n)]

\* read_exact on an in-memory reader: n bytes, or the end-of-file error.
read_exact(input, n) ==
    IF Len(input) < n
        THEN [err |-> IoEof, bytes |-> << >>, rest |-> << >>]
        ELSE [err |-> Ok, bytes |-> Take(input, n), rest |-> Drop(input, n)]

\* The result of a read: the error or Ok, the value, the unread input.
Rd(err, val, rest) == [err |-> err, val |-> val, rest |-> rest]

\* read_stream_header that compares the first three bytes of the magic only.
read_stream_header_magic3(input) ==
    LET m == read_exact(input, 4) IN
    IF ~IsOk(m.err) THEN Rd(m.err, Null, m.rest)
    ELSE IF Take(m.bytes, 3) # Take(MAGIC, 3)
        THEN Rd(Err("InvalidFormat", "bad magic"), Null, m.rest)
    ELSE LET v == read_exact(m.rest, 1) IN
    IF ~IsOk(v.err) THEN Rd(v.err, Null, v.rest)
    ELSE IF v.bytes[1] # VERSION
        THEN Rd(Err("UnsupportedVersion", v.bytes[1]), Null, v.rest)
    ELSE LET b == read_exact(v.rest, 4) IN
    IF ~IsOk(b.err) THEN Rd(b.err, Null, b.rest)
    ELSE LET f == read_exact(b.rest, 4) IN
    IF ~IsOk(f.err) THEN Rd(f.err, Null, f.rest)
    ELSE LET opts == CompressionOptions(Wide(from_le_bytes(b.bytes)),
                                        f.bytes[1], f.bytes[2], f.bytes[3], f.bytes[4])
             ok == validate_options(opts) IN
         IF ~IsOk(ok) THEN Rd(ok, Null, f.rest) ELSE Rd(Ok, opts, f.rest)

\* read_stream_header that reads the whole header and validates the options
\* before it looks at the version.
read_stream_header_options_first(input) ==
    LET m == read_exact(input, 4) IN
    IF ~IsOk(m.err) THEN Rd(m.err, Null, m.rest)
    ELSE IF m.bytes # MAGIC THEN Rd(Err("InvalidFormat", "bad magic"), Null, m.rest)
    ELSE LET v == read_exact(m.rest, 1) IN
    IF ~IsOk(v.err) THEN Rd(v.err, Null, v.rest)
    ELSE LET b == read_exact(v.rest, 4) IN
    IF ~IsOk(b.err) THEN Rd(b.err, Null, b.rest)
    ELSE LET f == read_exact(b.rest, 4) IN
    IF ~IsOk(f.err) THEN Rd(f.err, Null, f.rest)
    ELSE LET opts == CompressionOptions(Wide(from_le_bytes(b.bytes)),
                                        f.bytes[1], f.bytes[2], f.bytes[3], f.bytes[4])
             ok == validate_options(opts) IN
         IF ~IsOk(ok) THEN Rd(ok, Null, f.rest)
         ELSE IF v.bytes[1] # VERSION
            THEN Rd(Err("UnsupportedVersion", v.bytes[1]), Null, f.rest)
         ELSE Rd(Ok, opts, f.rest)

read_stream_header(input) ==
    LET m == read_exact(input, 4) IN
    IF ~IsOk(m.err) THEN Rd(m.err, Null, m.rest)
    ELSE IF m.bytes # MAGIC THEN Rd(Err("InvalidFormat", "bad magic"), Null, m.rest)
    ELSE LET v == read_exact(m.rest, 1) IN
    IF ~IsOk(v.err) THEN Rd(v.err, Null, v.rest)
    ELSE IF v.bytes[1] # VERSION
        THEN Rd(Err("UnsupportedVersion", v.bytes[1]), Null, v.rest)
    ELSE LET b == read_exact(v.rest, 4) IN
    IF ~IsOk(b.err) THEN Rd(b.err, Null, b.rest)
    ELSE LET f == read_exact(b.rest, 4) IN
    IF ~IsOk(f.err) THEN Rd(f.err, Null, f.rest)
    ELSE LET opts == CompressionOptions(Wide(from_le_bytes(b.bytes)),
                                        f.bytes[1], f.bytes[2], f.bytes[3], f.bytes[4])
             ok == validate_options(opts) IN
         IF ~IsOk(ok) THEN Rd(ok, Null, f.rest) ELSE Rd(Ok, opts, f.rest)

BlockHeader(u, c) == [uncompressed_len |-> u, compressed_len |-> c]

write_block_header(out, header) ==
    out \o to_le_bytes(header.uncompressed_len) \o to_le_bytes(header.compressed_len)

read_block_header(input) ==
    LET r == read_exact(input, 8) IN
    IF ~IsOk(r.err) THEN Rd(r.err, Null, r.rest)
    ELSE Rd(Ok, BlockHeader(from_le_bytes(SubSeq(r.bytes, 1, 4)),
                            from_le_bytes(SubSeq(r.bytes, 5, 8))), r.rest)

\* The test of the end of the stream with "or" for "and".
is_terminator_either(header) ==
    header.uncompressed_len = 0 \/ header.compressed_len = 0

\* if header.uncompressed_len == 0 && header.compressed_len == 0
is_terminator(header) ==
    header.uncompressed_len = 0 /\ header.compressed_len = 0

\* -------------------------------------------------------------------- hash

\* A u32 as its 16-bit halves.
H32(hi, lo) == [hi |-> hi, lo |-> lo]

\* (a * b) mod 2^16 and (a * b) div 2^16 for a, b < 2^16, by 8-bit digits.
MulLo16(a, b) ==
    ((a % 256) * (b % 256)
        + (((a \div 256) * (b % 256) + (a % 256) * (b \div 256)) % 256) * 256) % 65536
MulHi16(a, b) ==
    LET a0 == a % 256  a1 == a \div 256
        b0 == b % 256  b1 == b \div 256
        mid == a1 * b0 + a0 * b1
        low == a0 * b0 + (mid % 256) * 256
    IN  a1 * b1 + (mid \div 256) + (low \div 65536)

\* x.wrapping_mul(0x85eb_ca6b)
wrapping_mul(x) ==
    LET ch == 34283  \* 0x85eb
        cl == 51819  \* 0xca6b
    IN  H32((MulHi16(x.lo, cl) + MulLo16(x.hi, cl) + MulLo16(x.lo, ch)) % 65536,
            MulLo16(x.lo, cl))

\* x ^ (x >> 13)
xor_shift13(x) ==
    H32(BitXor(x.hi, x.hi \div 8192),
        BitXor(x.lo, (x.hi % 8192) * 8 + (x.lo \div 8192)))

\* for &b in s { x ^= b; x = x.wrapping_mul(..); x ^= x >> 13 }.  The test of
\* the new x has it computed before the next byte is taken, which keeps the
\* evaluation shallow.
RECURSIVE hash_from(_, _, _)
hash_from(x, s, j) ==
    IF j > Len(s) THEN x
    ELSE LET next == xor_shift13(wrapping_mul(H32(x.hi, BitXor(x.lo, s[j])))) IN
         IF next = next THEN hash_from(next, s, j + 1) ELSE next

\* The u32 hash of a byte slice, as halves; 0x9e3779b9 = (40503, 31161).
hash_slice(s) == hash_from(H32(40503, 31161), s, 1)

\* hash & mask for mask = 2^table_log - 1, table_log <= 28.
MaskTo(h, table_log) ==
    IF table_log <= 16 THEN h.lo % Pow2(table_log)
    ELSE (h.hi % Pow2(table_log - 16)) * 65536 + h.lo

\* ----------------------------------------------------------------- encoder

\* 0-based indexing of a Rust slice.
At(s, idx) == s[idx + 1]
\* &s[a..b]
Slice(s, a, b) == SubSeq(s, a + 1, b)

\* vec![0u32; table_size], kept as its nonzero slots.
EmptyTable == [slot \in {} |-> 0]
Lookup(table, slot) == IF slot \in DOMAIN table THEN table[slot] ELSE 0
Store(table, slot, v) == (slot :> v) @@ table

\* mask is 2^table_log - 1: `& mask` is `% 2^table_log`.
SearchContext(options) ==
    [min_match |-> options.min_match,
     table_log |-> options.table_log,
     bucket |-> Pow2(options.search_log) - 1]

MaxOffset == 16777215

\* while len < max && input[p + len] == input[i + len] { len += 1 }: the loop
\* stops at the first place from len on where the two bytes differ, or at max.
match_len(input, p, i, max, len) ==
    IF len >= max THEN len
    ELSE LET differ == {k \in len .. max - 1 : At(input, p + k) # At(input, i + k)}
         IN  IF differ = {} THEN max
             ELSE CHOOSE k \in differ : \A j \in differ : k <= j

Best(len, off) == [len |-> len, off |-> off]

\* search_from with the offset counted one too far.
search_from_far(input, i, best, table, hash, search, k) ==
    LET slot(b, j) ==
            LET p1 == Lookup(table, BitXor(hash, j) % Pow2(search.table_log))
                p == p1 - 1
                off == i - p + 1
                max == Min2(Len(input) - i, 255 + search.min_match)
                len == match_len(input, p, i, max, 0)
                better == IF len > b.len \/ (len = b.len /\ off < b.off)
                            THEN Best(len, off) ELSE b
            IN  IF p1 = 0 \/ p >= i \/ off > MaxOffset
                    THEN [best |-> b, break |-> FALSE]
                ELSE [best |-> better,
                      break |-> better.len >= search.min_match + 63]
        RECURSIVE slots(_, _, _)
        slots(r, from, to) ==
            IF r.break \/ from > to THEN r
            ELSE IF from = to THEN slot(r.best, from)
            ELSE slots(slots(r, from, (from + to) \div 2),
                       (from + to) \div 2 + 1, to)
    IN  slots([best |-> best, break |-> FALSE], k, search.bucket).best

\* search_from where only a longer candidate replaces the best one.
search_from_longer(input, i, best, table, hash, search, k) ==
    LET slot(b, j) ==
            LET p1 == Lookup(table, BitXor(hash, j) % Pow2(search.table_log))
                p == p1 - 1
                off == i - p
                max == Min2(Len(input) - i, 255 + search.min_match)
                len == match_len(input, p, i, max, 0)
                better == IF len > b.len
                            THEN Best(len, off) ELSE b
            IN  IF p1 = 0 \/ p >= i \/ off > MaxOffset
                    THEN [best |-> b, break |-> FALSE]
                ELSE [best |-> better,
                      break |-> better.len >= search.min_match + 63]
        RECURSIVE slots(_, _, _)
        slots(r, from, to) ==
            IF r.break \/ from > to THEN r
            ELSE IF from = to THEN slot(r.best, from)
            ELSE slots(slots(r, from, (from + to) \div 2),
                       (from + to) \div 2 + 1, to)
    IN  slots([best |-> best, break |-> FALSE], k, search.bucket).best

\* for k in 0..=search.bucket { .. }: the slots k .. bucket in order, up to the
\* break, as the first half of them and then the second half.
search_from(input, i, best, table, hash, search, k) ==
    LET slot(b, j) ==
            LET p1 == Lookup(table, BitXor(hash, j) % Pow2(search.table_log))
                p == p1 - 1
                off == i - p
                max == Min2(Len(input) - i, 255 + search.min_match)
                len == match_len(input, p, i, max, 0)
                better == IF len > b.len \/ (len = b.len /\ off < b.off)
                            THEN Best(len, off) ELSE b
            IN  IF p1 = 0 \/ p >= i \/ off > MaxOffset
                    THEN [best |-> b, break |-> FALSE]
                ELSE [best |-> better,
                      break |-> better.len >= search.min_match + 63]
        RECURSIVE slots(_, _, _)
        slots(r, from, to) ==
            IF r.break \/ from > to THEN r
            ELSE IF from = to THEN slot(r.best, from)
            ELSE slots(slots(r, from, (from + to) \div 2),
                       (from + to) \div 2 + 1, to)
    IN  slots([best |-> best, break |-> FALSE], k, search.bucket).best

search_candidates(input, i, best, table, hash, search) ==
    search_from(input, i, best, table, hash, search, 0)

\* Option<Vec<u32>>
None == [some |-> FALSE, v |-> EmptyTable]
Some(t) == [some |-> TRUE, v |-> t]

\* The two tables of a block; h2 is None when secondary_match = 0.
Tables(h1, h2) == [h1 |-> h1, h2 |-> h2]

\* An update that stores a position in the slot next to the one of its hash.
update_tables_beside(input, pos, options, t) ==
    LET h1 == IF pos + options.min_match <= Len(input)
                THEN Store(t.h1,
                           BitXor(MaskTo(hash_slice(Slice(input, pos, pos + options.min_match)),
                                         options.table_log), 1),
                           pos + 1)
                ELSE t.h1
    IN  Tables(h1, t.h2)

update_tables(input, pos, options, t) ==
    LET h1 == IF pos + options.min_match <= Len(input)
                THEN Store(t.h1,
                           MaskTo(hash_slice(Slice(input, pos, pos + options.min_match)),
                                  options.table_log),
                           pos + 1)
                ELSE t.h1
        h2 == IF t.h2.some /\ options.secondary_match > 0
                    /\ pos + options.secondary_match <= Len(input)
                THEN Some(Store(t.h2.v,
                           MaskTo(hash_slice(Slice(input, pos, pos + options.secondary_match)),
                                  options.table_log),
                           pos + 1))
                ELSE t.h2
    IN  Tables(h1, h2)

\* An update after a match that inserts the position of the match alone.
update_range_head(input, p, end, options, t) ==
    IF p >= end THEN t ELSE update_tables(input, p, options, t)

\* for p in i..min(i + best_len, input.len()) { update_tables(..) }: the
\* positions p .. end - 1 in order, as the first half of them and then the
\* second half. The comparison has the tables of the first half computed
\* before the second half starts, which keeps the evaluation shallow.
RECURSIVE update_range(_, _, _, _, _)
update_range(input, p, end, options, t) ==
    IF p >= end THEN t
    ELSE IF p + 1 = end THEN update_tables(input, p, options, t)
    ELSE LET mid == (p + end) \div 2
             half == update_range(input, p, mid, options, t)
         IN  IF half = half THEN update_range(input, mid, end, options, half) ELSE half

\* The lengths of the literal tokens of a run of n bytes.
RECURSIVE literal_chunks(_)
literal_chunks(n) ==
    IF n <= 0 THEN << >>
    ELSE LET chunk == Min2(64, n) IN << chunk >> \o literal_chunks(n - chunk)

\* emit_literals with chunks of at most 63 bytes.
RECURSIVE emit_literals_63(_, _)
emit_literals_63(out, literals) ==
    IF Len(literals) = 0 THEN out
    ELSE LET chunk == Min2(63, Len(literals)) IN
         emit_literals_63(out \o << AsU8(chunk) - 1 >> \o Take(literals, chunk),
                          Drop(literals, chunk))

RECURSIVE emit_literals(_, _)
emit_literals(out, literals) ==
    IF Len(literals) = 0 THEN out
    ELSE LET chunk == Min2(64, Len(literals)) IN
         emit_literals(out \o << AsU8(chunk) - 1 >> \o Take(literals, chunk),
                       Drop(literals, chunk))

\* match_cut that cuts min_match + 63 whenever more is left.
match_cut_greedy(len, min_match) ==
    IF len > min_match + 63 THEN min_match + 63 ELSE len

\* match_cut without the case that leaves min_match bytes for the last token.
match_cut_whole(len, min_match) ==
    IF len > min_match * 2 + 63 THEN min_match + 63 ELSE len

\* The length len1 the loop of emit_match_tokens cuts from a remaining len.
match_cut(len, min_match) ==
    IF len > min_match * 2 + 63 THEN min_match + 63
    ELSE IF len > min_match + 63 THEN len - min_match
    ELSE len

\* The lengths of the tokens of a match of length len.
RECURSIVE match_split(_, _)
match_split(len, min_match) ==
    IF len <= 0 THEN << >>
    ELSE LET len1 == match_cut(len, min_match) IN
         << len1 >> \o match_split(len - len1, min_match)

offset_bytes(off_m1) ==
    IF off_m1 < 65536 THEN 2 ELSE IF off_m1 < 16777216 THEN 3 ELSE 4

\* off_m1 as off_bytes big-endian bytes.
RECURSIVE be_bytes(_, _)
be_bytes(v, n) ==
    IF n = 0 THEN << >> ELSE be_bytes(v \div 256, n - 1) \o << v % 256 >>

match_code(off_bytes, len1, min_match) ==
    ((off_bytes - 1) % 4) * 64 + (AsU8(len1 - min_match) % 64)

RECURSIVE emit_match_tokens(_, _, _, _)
emit_match_tokens(out, len, off, min_match) ==
    IF len <= 0 THEN out
    ELSE LET off_m1 == off - 1
             off_bytes == offset_bytes(off_m1)
             len1 == match_cut(len, min_match)
         IN  emit_match_tokens(
                 out \o << match_code(off_bytes, len1, min_match) >>
                     \o be_bytes(off_m1, off_bytes),
                 len - len1, off, min_match)

\* The locals of encode_lz77_block, with the search result of the last step.
EncState(input, i, lit_start, tables, out, best, emitted) ==
    [input |-> input, i |-> i, lit_start |-> lit_start, tables |-> tables,
     out |-> out, best |-> best, emitted |-> emitted]

encode_begin(input, options) ==
    EncState(input, 0, 0,
             Tables(EmptyTable, IF options.secondary_match > 0 THEN Some(EmptyTable) ELSE None),
             << >>, Best(0, 0), FALSE)

\* The candidate search of one iteration at cursor e.i.
encode_search(e, options) ==
    LET search == SearchContext(options)
        input == e.input
        i == e.i
    IN  IF i + options.min_match <= Len(input)
        THEN LET b2 == IF e.tables.h2.some /\ i + options.secondary_match <= Len(input)
                        THEN search_candidates(input, i, Best(0, 0), e.tables.h2.v,
                                 MaskTo(hash_slice(Slice(input, i, i + options.secondary_match)),
                                        options.table_log),
                                 search)
                        ELSE Best(0, 0)
             IN  search_candidates(input, i, b2, e.tables.h1,
                     MaskTo(hash_slice(Slice(input, i, i + options.min_match)),
                            options.table_log),
                     search)
        ELSE Best(0, 0)

emit_match(best, options) ==
    IF best.off = 0 THEN FALSE
    ELSE LET extra == (IF best.off >= 65536 THEN 1 ELSE 0)
                      + (IF best.off >= 16777216 THEN 1 ELSE 0)
         IN  best.len >= options.min_match + extra

\* One iteration of the while loop of encode_lz77_block.
encode_step(e, options) ==
    LET best == encode_search(e, options) IN
    IF emit_match(best, options)
    THEN EncState(e.input, e.i + best.len, e.i + best.len,
                  update_range(e.input, e.i, Min2(e.i + best.len, Len(e.input)),
                               options, e.tables),
                  emit_match_tokens(emit_literals(e.out, Slice(e.input, e.lit_start, e.i)),
                                    best.len, best.off, options.min_match),
                  best, TRUE)
    ELSE EncState(e.input, e.i + 1, e.lit_start,
                  update_tables(e.input, e.i, options, e.tables),
                  e.out, best, FALSE)

\* After the loop: the pending literals, and the encoded block.
encode_finish(e) ==
    IF e.lit_start < Len(e.input)
        THEN emit_literals(e.out, Slice(e.input, e.lit_start, Len(e.input)))
        ELSE e.out

\* while i < input.len() { .. }: at most one turn for each byte of the input,
\* taken in halves.
encode_loop(e, options) ==
    LET RECURSIVE turns(_, _)
        turns(s, n) ==
            IF n = 0 \/ s.i >= Len(s.input) THEN s
            ELSE IF n = 1 THEN encode_step(s, options)
            ELSE turns(turns(s, n \div 2), n - n \div 2)
    IN  encode_finish(turns(e, Len(e.input)))

encode_lz77_block(input, options) == encode_loop(encode_begin(input, options), options)

\* ----------------------------------------------------------------- decoder

Corrupt(reason) == Err("Corrupt", reason)
\* An index outside a slice or a Vec: the bounds check of Rust panics.
Panic == Err("Panic", "index out of bounds")

Decoded(err, out) == [err |-> err, out |-> out]

\* off_m1 = (off_m1 << 8) | byte over the offset bytes, as 16-bit halves.
RECURSIVE be_halves(_, _, _)
be_halves(x, bytes, j) ==
    IF j > Len(bytes) THEN x
    ELSE be_halves(H32((x.hi * 256 + (x.lo \div 256)) % 65536, (x.lo % 256) * 256 + bytes[j]),
                   bytes, j + 1)

\* off_m1 + 1 in a 64-bit usize.
halves_succ(x) == IF x.lo = 65535 THEN H32(x.hi + 1, 0) ELSE H32(x.hi, x.lo + 1)

\* for j in 0..len { out.push(out[start + j]) }
RECURSIVE copy_match(_, _, _, _)
copy_match(out, start, len, j) ==
    IF j >= len THEN Decoded(Ok, out)
    ELSE IF start + j < 0 \/ start + j >= Len(out) THEN Decoded(Panic, << >>)
    ELSE copy_match(Append(out, At(out, start + j)), start, len, j + 1)

\* decode_from without the check of the offset against the output.
RECURSIVE decode_from_unchecked(_, _, _, _)
decode_from_unchecked(input, i, out, min_match) ==
    IF i >= Len(input) THEN Decoded(Ok, out)
    ELSE
    LET code == At(input, i)
        kind == code \div 64
        low == code % 64
        i1 == i + 1
        lit_len == low + 1
        off_bytes == kind + 1
        off == halves_succ(be_halves(H32(0, 0), Slice(input, i1, i1 + off_bytes), 1))
        len == low + min_match
        copied == copy_match(out, Len(out) - off.lo, len, 0)
    IN  IF kind = 0
        THEN IF i1 + lit_len > Len(input)
                THEN Decoded(Corrupt("literal run exceeds input"), << >>)
                ELSE decode_from_unchecked(input, i1 + lit_len,
                                           out \o Slice(input, i1, i1 + lit_len), min_match)
        ELSE IF i1 + off_bytes > Len(input)
            THEN Decoded(Corrupt("offset exceeds input"), << >>)
        ELSE IF ~IsOk(copied.err) THEN copied
        ELSE decode_from_unchecked(input, i1 + off_bytes, copied.out, min_match)

\* decode_from with the offset checked against one byte more than the output.
RECURSIVE decode_from_lenient(_, _, _, _)
decode_from_lenient(input, i, out, min_match) ==
    IF i >= Len(input) THEN Decoded(Ok, out)
    ELSE
    LET code == At(input, i)
        kind == code \div 64
        low == code % 64
        i1 == i + 1
        lit_len == low + 1
        off_bytes == kind + 1
        off == halves_succ(be_halves(H32(0, 0), Slice(input, i1, i1 + off_bytes), 1))
        len == low + min_match
        copied == copy_match(out, Len(out) - off.lo, len, 0)
    IN  IF kind = 0
        THEN IF i1 + lit_len > Len(input)
                THEN Decoded(Corrupt("literal run exceeds input"), << >>)
                ELSE decode_from_lenient(input, i1 + lit_len,
                                         out \o Slice(input, i1, i1 + lit_len), min_match)
        ELSE IF i1 + off_bytes > Len(input)
            THEN Decoded(Corrupt("offset exceeds input"), << >>)
        ELSE IF (off.hi = 0 /\ off.lo = 0) \/ off.hi > 0 \/ off.lo > Len(out) + 1
            THEN Decoded(Corrupt("invalid match offset"), << >>)
        ELSE IF ~IsOk(copied.err) THEN copied
        ELSE decode_from_lenient(input, i1 + off_bytes, copied.out, min_match)

RECURSIVE decode_from(_, _, _, _)
decode_from(input, i, out, min_match) ==
    IF i >= Len(input) THEN Decoded(Ok, out)
    ELSE
    LET code == At(input, i)
        kind == code \div 64
        low == code % 64
        i1 == i + 1
        lit_len == low + 1
        off_bytes == kind + 1
        off == halves_succ(be_halves(H32(0, 0), Slice(input, i1, i1 + off_bytes), 1))
        len == low + min_match
        copied == copy_match(out, Len(out) - off.lo, len, 0)
    IN  IF kind = 0
        THEN IF i1 + lit_len > Len(input)
                THEN Decoded(Corrupt("literal run exceeds input"), << >>)
                ELSE decode_from(input, i1 + lit_len,
                                 out \o Slice(input, i1, i1 + lit_len), min_match)
        ELSE IF i1 + off_bytes > Len(input)
            THEN Decoded(Corrupt("offset exceeds input"), << >>)
        ELSE IF (off.hi = 0 /\ off.lo = 0) \/ off.hi > 0 \/ off.lo > Len(out)
            THEN Decoded(Corrupt("invalid match offset"), << >>)
        ELSE IF ~IsOk(copied.err) THEN copied
        ELSE decode_from(input, i1 + off_bytes, copied.out, min_match)

\* decode_lz77_block without the final check of the decoded size.
decode_lz77_block_any_size(input, expected_len, options) ==
    decode_from(input, 0, << >>, options.min_match)

decode_lz77_block(input, expected_len, options) ==
    LET d == decode_from(input, 0, << >>, options.min_match) IN
    IF ~IsOk(d.err) THEN d
    ELSE IF Len(d.out) # expected_len
        THEN Decoded(Corrupt("decoded size mismatch"), << >>)
    ELSE d

\* ------------------------------------------------------- the ZPAQ scanner

START_TAG_13 == << 55, 107, 83, 116, 160, 49, 131, 211, 140, 178, 40, 176, 211 >>
MAGIC_16 == START_TAG_13 \o << 122, 80, 81 >>
\* COMP_SIZE[t] is At(COMP_SIZE, t).
COMP_SIZE == << 0, 2, 3, 2, 3, 4, 6, 6, 3, 5 >>

InvalidFormat(reason) == Err("InvalidFormat", reason)
\* `c as u8 + 1` of a build with overflow checks.
PanicOverflow == Err("Panic", "attempt to add with overflow")

ZpaqBlockHeader(start_offset, level, zpaql_type, hsize, hh, hm, ph, pm, n_components, comp_bytes, hcomp_bytes, segment_offset) ==
    [start_offset |-> start_offset, level |-> level, zpaql_type |-> zpaql_type,
     hsize |-> hsize, hh |-> hh, hm |-> hm, ph |-> ph, pm |-> pm,
     n_components |-> n_components, comp_bytes |-> comp_bytes,
     hcomp_bytes |-> hcomp_bytes, segment_offset |-> segment_offset]

ZpaqExtractedSegment(block_index, filename, comment, data, sha1) ==
    [block_index |-> block_index, filename |-> filename, comment |-> comment,
     data |-> data, sha1 |-> sha1]

\* A search that stops at the 13-byte start tag.
find_magic_tag(haystack) ==
    LET hits == {w \in 0 .. Len(haystack) - Len(MAGIC_16) :
                    Slice(haystack, w, w + Len(START_TAG_13)) = START_TAG_13}
    IN  IF hits = {} THEN None
        ELSE Some(CHOOSE w \in hits : \A v \in hits : w <= v)

\* A search that looks at the first window only.
find_magic_head(haystack) ==
    IF Len(haystack) >= Len(MAGIC_16) /\ Take(haystack, Len(MAGIC_16)) = MAGIC_16
        THEN Some(0)
    ELSE None

\* haystack.windows(16).position(|w| w == MAGIC_16): the first window that is
\* the magic, None when there is none (a haystack shorter than the magic has
\* no window).
find_magic(haystack) ==
    LET hits == {w \in 0 .. Len(haystack) - Len(MAGIC_16) :
                    Slice(haystack, w, w + Len(MAGIC_16)) = MAGIC_16}
    IN  IF hits = {} THEN None
        ELSE Some(CHOOSE w \in hits : \A v \in hits : w <= v)

\* The two bytes read high byte first.
from_be_bytes16(lo, hi) == hi + 256 * lo

\* u16::from_le_bytes
from_le_bytes16(lo, hi) == lo + 256 * hi

\* Result<Option<(ZpaqBlockHeader, usize)>>
Parsed(header, consumed) ==
    [err |-> Ok, some |-> TRUE, header |-> header, consumed |-> consumed]
ParsedNone == [err |-> Ok, some |-> FALSE]
ParsedErr(e) == [err |-> e, some |-> FALSE]

\* A walk that takes a component of type 0 as one of no bytes.
RECURSIVE comp_walk_zero(_, _, _, _)
comp_walk_zero(data, cp, left, header_end) ==
    IF left = 0 THEN [err |-> Ok, cp |-> cp]
    ELSE IF cp >= header_end
        THEN [err |-> Corrupt("COMP overflows header"), cp |-> cp]
    ELSE LET t == At(data, cp) IN
         IF t >= Len(COMP_SIZE)
             THEN [err |-> Corrupt("invalid component type"), cp |-> cp]
         ELSE IF cp + At(COMP_SIZE, t) > header_end
             THEN [err |-> Corrupt("component overflows header"), cp |-> cp]
         ELSE comp_walk_zero(data, cp + At(COMP_SIZE, t), left - 1, header_end)

\* for _ in 0..n_components { .. cp += sz }: the cursor after the components
\* that are left, or the error of the first one that does not fit.
RECURSIVE comp_walk(_, _, _, _)
comp_walk(data, cp, left, header_end) ==
    IF left = 0 THEN [err |-> Ok, cp |-> cp]
    ELSE IF cp >= header_end
        THEN [err |-> Corrupt("COMP overflows header"), cp |-> cp]
    ELSE LET t == At(data, cp) IN
         IF t >= Len(COMP_SIZE) \/ At(COMP_SIZE, t) = 0
             THEN [err |-> Corrupt("invalid component type"), cp |-> cp]
         ELSE IF cp + At(COMP_SIZE, t) > header_end
             THEN [err |-> Corrupt("component overflows header"), cp |-> cp]
         ELSE comp_walk(data, cp + At(COMP_SIZE, t), left - 1, header_end)

parse_block_header(data, at) ==
    IF at + Len(MAGIC_16) + 2 > Len(data) THEN ParsedNone
    ELSE IF Slice(data, at, at + Len(START_TAG_13)) # START_TAG_13 THEN ParsedNone
    ELSE LET level == At(data, at + Len(MAGIC_16))
             zpaql_type == At(data, at + Len(MAGIC_16) + 1)
             p == at + Len(MAGIC_16) + 2
         IN
    IF level # 1 /\ level # 2 THEN ParsedNone
    ELSE IF zpaql_type # 1 THEN ParsedNone
    ELSE IF p + 7 > Len(data)
        THEN ParsedErr(Corrupt("truncated ZPAQL header prefix"))
    ELSE LET hsize == from_le_bytes16(At(data, p), At(data, p + 1))
             n_components == At(data, p + 6)
             header_start == p
             header_total == hsize + 2
         IN
    IF header_start + header_total > Len(data)
        THEN ParsedErr(Corrupt("truncated ZPAQL header"))
    ELSE LET w == comp_walk(data, header_start + 7, n_components,
                            header_start + header_total)
         IN
    IF ~IsOk(w.err) THEN ParsedErr(w.err)
    ELSE IF w.cp >= header_start + header_total \/ At(data, w.cp) # 0
        THEN ParsedErr(Corrupt("missing COMP END"))
    ELSE LET cp == w.cp + 1
             comp_bytes == cp - (header_start + 2)
             hcomp_bytes == hsize - comp_bytes
             segment_offset == header_start + header_total
             consumed == IF segment_offset - at < 1 THEN 1 ELSE segment_offset - at
         IN
    IF comp_bytes > hsize THEN ParsedErr(Corrupt("invalid hsize/COMP layout"))
    ELSE IF hcomp_bytes = 0 THEN ParsedErr(Corrupt("missing HCOMP"))
    ELSE IF At(data, header_start + header_total - 1) # 0
        THEN ParsedErr(Corrupt("missing HCOMP END"))
    ELSE Parsed(ZpaqBlockHeader(at, level, zpaql_type, hsize, At(data, p + 2),
                    At(data, p + 3), At(data, p + 4), At(data, p + 5),
                    n_components, comp_bytes, hcomp_bytes, segment_offset),
                consumed)

\* Result<Vec<ZpaqBlockHeader>>
Inspected(err, blocks) == [err |-> err, blocks |-> blocks]

\* while i + MAGIC_16.len() + 2 < data.len() { .. }
RECURSIVE inspect_from(_, _, _)
inspect_from(data, i, out) ==
    IF ~(i + Len(MAGIC_16) + 2 < Len(data)) THEN Inspected(Ok, out)
    ELSE LET rel == find_magic(Drop(data, i)) IN
         IF ~rel.some THEN Inspected(Ok, out)
         ELSE LET at == i + rel.v
                  r == parse_block_header(data, at)
              IN  IF ~IsOk(r.err) THEN Inspected(r.err, << >>)
                  ELSE IF ~r.some THEN inspect_from(data, at + 1, out)
                  ELSE inspect_from(data, at + r.consumed, Append(out, r.header))

inspect_bytes(data) == inspect_from(data, 0, << >>)

\* Result<u8> and the cursor after the call.
get_required(data, pos, what) ==
    IF pos >= Len(data) THEN [err |-> Corrupt(what), val |-> 0, pos |-> pos]
    ELSE [err |-> Ok, val |-> At(data, pos), pos |-> pos + 1]

\* A read of the four bytes with the lowest first.
read_u32_le(data, pos) ==
    IF pos + 4 > Len(data)
        THEN [err |-> Corrupt("u32"), val |-> H32(0, 0), pos |-> pos]
    ELSE [err |-> Ok,
          val |-> H32(256 * At(data, pos + 3) + At(data, pos + 2),
                      256 * At(data, pos + 1) + At(data, pos)),
          pos |-> pos + 4]

\* Four calls of get_required, x = (x << 8) | byte: the u32 as its 16-bit
\* halves.
read_u32_be(data, pos) ==
    IF pos + 4 > Len(data)
        THEN [err |-> Corrupt("u32"), val |-> H32(0, 0), pos |-> pos]
    ELSE [err |-> Ok,
          val |-> H32(256 * At(data, pos) + At(data, pos + 1),
                      256 * At(data, pos + 2) + At(data, pos + 3)),
          pos |-> pos + 4]

\* Result<i32>, the cursor and the bytes left of the chunk after the call.
Byte(err, c, pos, curr) == [err |-> err, c |-> c, pos |-> pos, curr |-> curr]

\* curr is a u32 as its 16-bit halves; *curr -= 1 borrows from the high half.
decompress_unmodeled_byte(data, pos, curr) ==
    LET r == IF curr = H32(0, 0) THEN read_u32_be(data, pos)
             ELSE [err |-> Ok, val |-> curr, pos |-> pos]
        left == IF r.val.lo = 0 THEN H32(r.val.hi - 1, 65535)
                ELSE H32(r.val.hi, r.val.lo - 1)
    IN  IF ~IsOk(r.err) THEN Byte(r.err, 0, pos, curr)
        ELSE IF r.val = H32(0, 0) THEN Byte(Ok, -1, r.pos, H32(0, 0))
        ELSE LET b == get_required(data, r.pos, "compressed payload") IN
             IF ~IsOk(b.err) THEN Byte(b.err, 0, r.pos, left)
             ELSE Byte(Ok, b.val, b.pos, left)

\* String::from_utf8_lossy on one maximal piece: an ASCII byte is its own
\* character, a two-byte sequence (0xC2..0xDF, 0x80..0xBF) is the character
\* it encodes, every other byte is U+FFFD (the model's names hold no three-
\* and four-byte sequences).
RECURSIVE from_utf8_lossy(_)
from_utf8_lossy(bytes) ==
    IF bytes = << >> THEN << >>
    ELSE LET b == bytes[1] IN
         IF b < 128 THEN << b >> \o from_utf8_lossy(Tail(bytes))
         ELSE IF b >= 194 /\ b <= 223 /\ Len(bytes) >= 2
                 /\ bytes[2] >= 128 /\ bytes[2] <= 191
             THEN << (b - 192) * 64 + (bytes[2] - 128) >>
                  \o from_utf8_lossy(Tail(Tail(bytes)))
         ELSE << 65533 >> \o from_utf8_lossy(Tail(bytes))

\* The position of the first zero byte at or after pos, Len(data) if none.
cstr_end(data, pos) ==
    LET zeros == {q \in pos .. Len(data) - 1 : At(data, q) = 0}
    IN  IF zeros = {} THEN Len(data)
        ELSE CHOOSE q \in zeros : \A z \in zeros : q <= z

\* Result<String> and the cursor after the call.
read_cstr(data, pos) ==
    LET z == cstr_end(data, pos) IN
    IF z >= Len(data) THEN [err |-> Corrupt("cstr"), val |-> << >>, pos |-> pos]
    ELSE [err |-> Ok, val |-> from_utf8_lossy(Slice(data, pos, z)), pos |-> z + 1]

\* PassOrProgramPostProcessor::new (ph and pm are kept and never read).
PassOrProgramPostProcessor(ph, pm) ==
    [state |-> 0, program_remaining |-> 0, program_mode |-> FALSE]

\* Result<()>, the post-processor and the segment data after the call.
Written(err, pp, out) == [err |-> err, pp |-> pp, out |-> out]

\* A post-processor that takes the low byte alone for the size of the program.
write_size_low(pp, c, out, overflow_checks) ==
    IF pp.state = 0 THEN
        IF c < 0
            THEN Written(Corrupt("unexpected EOS in postprocessor header"), pp, out)
        ELSE IF AsU8(c) + 1 > 255 /\ overflow_checks
            THEN Written(PanicOverflow, pp, out)
        ELSE LET s == (AsU8(c) + 1) % 256 IN
             IF s = 1 \/ s = 2 THEN Written(Ok, [pp EXCEPT !.state = s], out)
             ELSE Written(Corrupt("unknown postprocessing type"),
                          [pp EXCEPT !.state = s], out)
    ELSE IF pp.state = 1 THEN
        Written(Ok, pp, IF c >= 0 THEN Append(out, AsU8(c)) ELSE out)
    ELSE IF pp.state = 2 THEN
        IF c < 0
            THEN Written(Corrupt("unexpected EOS reading PCOMP size low"), pp, out)
        ELSE Written(Ok, [pp EXCEPT !.program_remaining = c, !.state = 3], out)
    ELSE IF pp.state = 3 THEN
        IF c < 0
            THEN Written(Corrupt("unexpected EOS reading PCOMP size high"), pp, out)
        ELSE LET size == pp.program_remaining IN
             IF size = 0
                 THEN Written(Corrupt("empty PCOMP"),
                              [pp EXCEPT !.program_remaining = size], out)
             ELSE Written(Ok, [pp EXCEPT !.program_remaining = size, !.state = 4],
                          out)
    ELSE IF pp.state = 4 THEN
        IF c < 0
            THEN Written(Corrupt("unexpected EOS reading PCOMP body"), pp, out)
        ELSE LET left == IF pp.program_remaining = 0 THEN 0
                         ELSE pp.program_remaining - 1
             IN  IF left = 0
                     THEN Written(Ok, [pp EXCEPT !.program_remaining = 0,
                                                 !.program_mode = TRUE,
                                                 !.state = 5], out)
                 ELSE Written(Ok, [pp EXCEPT !.program_remaining = left], out)
    ELSE IF pp.state = 5 THEN Written(Ok, pp, out)
    ELSE Written(Corrupt("invalid postprocessor state"), pp, out)

\* PassOrProgramPostProcessor::write.  `c as u8 + 1` of c = 255 panics in a
\* build with overflow checks and is 0 in one without.
write(pp, c, out, overflow_checks) ==
    IF pp.state = 0 THEN
        IF c < 0
            THEN Written(Corrupt("unexpected EOS in postprocessor header"), pp, out)
        ELSE IF AsU8(c) + 1 > 255 /\ overflow_checks
            THEN Written(PanicOverflow, pp, out)
        ELSE LET s == (AsU8(c) + 1) % 256 IN
             IF s = 1 \/ s = 2 THEN Written(Ok, [pp EXCEPT !.state = s], out)
             ELSE Written(Corrupt("unknown postprocessing type"),
                          [pp EXCEPT !.state = s], out)
    ELSE IF pp.state = 1 THEN
        Written(Ok, pp, IF c >= 0 THEN Append(out, AsU8(c)) ELSE out)
    ELSE IF pp.state = 2 THEN
        IF c < 0
            THEN Written(Corrupt("unexpected EOS reading PCOMP size low"), pp, out)
        ELSE Written(Ok, [pp EXCEPT !.program_remaining = c, !.state = 3], out)
    ELSE IF pp.state = 3 THEN
        IF c < 0
            THEN Written(Corrupt("unexpected EOS reading PCOMP size high"), pp, out)
        ELSE LET size == pp.program_remaining + 256 * c IN
             IF size = 0
                 THEN Written(Corrupt("empty PCOMP"),
                              [pp EXCEPT !.program_remaining = size], out)
             ELSE Written(Ok, [pp EXCEPT !.program_remaining = size, !.state = 4],
                          out)
    ELSE IF pp.state = 4 THEN
        IF c < 0
            THEN Written(Corrupt("unexpected EOS reading PCOMP body"), pp, out)
        ELSE LET left == IF pp.program_remaining = 0 THEN 0
                         ELSE pp.program_remaining - 1
             IN  IF left = 0
                     THEN Written(Ok, [pp EXCEPT !.program_remaining = 0,
                                                 !.program_mode = TRUE,
                                                 !.state = 5], out)
                 ELSE Written(Ok, [pp EXCEPT !.program_remaining = left], out)
    ELSE IF pp.state = 5 THEN Written(Ok, pp, out)
    ELSE Written(Corrupt("invalid postprocessor state"), pp, out)

\* The locals of the loop over the segments of one block: the cursor, the
\* bytes left of the payload chunk, the post-processor, first_segment, the
\* names and the data of the running segment, whether the byte read last was
\* the end of the payload, and the segments pushed.
Block(err, pos, curr, pp, first_segment, out) ==
    [err |-> err, pos |-> pos, curr |-> curr, pp |-> pp,
     first_segment |-> first_segment, filename |-> << >>, comment |-> << >>,
     data |-> << >>, eos |-> FALSE, out |-> out]

\* One byte of the payload through the post-processor.
payload_byte(data, b, overflow_checks) ==
    LET c == decompress_unmodeled_byte(data, b.pos, b.curr) IN
    IF ~IsOk(c.err) THEN [b EXCEPT !.err = c.err]
    ELSE LET w == write(b.pp, c.c, b.data, overflow_checks) IN
         [b EXCEPT !.err = w.err, !.pos = c.pos, !.curr = c.curr, !.pp = w.pp,
                   !.data = w.out, !.eos = c.c < 0]

\* if first_segment { while (pp.state() & 3) != 1 { .. } }
RECURSIVE prime(_, _, _)
prime(data, b, overflow_checks) ==
    IF ~IsOk(b.err) \/ ~b.first_segment \/ b.pp.state % 4 = 1
        THEN [b EXCEPT !.first_segment = FALSE]
    ELSE prime(data, payload_byte(data, b, overflow_checks), overflow_checks)

\* loop { .. if c < 0 { break; } }
RECURSIVE drain(_, _, _)
drain(data, b, overflow_checks) ==
    IF ~IsOk(b.err) \/ b.eos THEN b
    ELSE drain(data, payload_byte(data, b, overflow_checks), overflow_checks)

\* The 20 bytes after the end marker 253.
Sha1Len == 20

\* The start of a segment, after its marker 1: the names and the reserved byte.
segment_names(data, b) ==
    LET filename == read_cstr(data, b.pos)
        comment == read_cstr(data, filename.pos)
        reserved == get_required(data, comment.pos, "reserved byte")
    IN  IF ~IsOk(filename.err) THEN [b EXCEPT !.err = filename.err]
        ELSE IF ~IsOk(comment.err) THEN [b EXCEPT !.err = comment.err]
        ELSE IF ~IsOk(reserved.err) THEN [b EXCEPT !.err = reserved.err]
        ELSE IF reserved.val # 0
            THEN [b EXCEPT !.err = Corrupt("missing reserved byte after comment")]
        ELSE [b EXCEPT !.pos = reserved.pos, !.filename = filename.val,
                       !.comment = comment.val, !.data = << >>, !.eos = FALSE]

\* An end of segment that takes every marker but 253 for 254.
segment_end_any(data, b, block_index) ==
    IF ~IsOk(b.err) THEN b
    ELSE LET m == get_required(data, b.pos, "segment end marker") IN
    IF ~IsOk(m.err) THEN [b EXCEPT !.err = m.err]
    ELSE IF m.val = 253 THEN
        IF m.pos + 20 > Len(data) THEN [b EXCEPT !.err = Corrupt("sha1 byte")]
        ELSE [b EXCEPT !.pos = m.pos + 20,
                       !.out = Append(b.out, ZpaqExtractedSegment(block_index,
                                          b.filename, b.comment, b.data,
                                          Some(Slice(data, m.pos, m.pos + 20))))]
    ELSE [b EXCEPT !.pos = m.pos,
                   !.out = Append(b.out, ZpaqExtractedSegment(block_index,
                                      b.filename, b.comment, b.data, None))]

\* The end of a segment: the marker 254, or 253 and a SHA-1, and the push.
segment_end(data, b, block_index) ==
    IF ~IsOk(b.err) THEN b
    ELSE LET m == get_required(data, b.pos, "segment end marker") IN
    IF ~IsOk(m.err) THEN [b EXCEPT !.err = m.err]
    ELSE IF m.val = 254 THEN
        [b EXCEPT !.pos = m.pos,
                  !.out = Append(b.out, ZpaqExtractedSegment(block_index,
                                     b.filename, b.comment, b.data, None))]
    ELSE IF m.val = 253 THEN
        IF m.pos + Sha1Len > Len(data) THEN [b EXCEPT !.err = Corrupt("sha1 byte")]
        ELSE [b EXCEPT !.pos = m.pos + Sha1Len,
                       !.out = Append(b.out, ZpaqExtractedSegment(block_index,
                                          b.filename, b.comment, b.data,
                                          Some(Slice(data, m.pos, m.pos + Sha1Len))))]
    ELSE [b EXCEPT !.err = Corrupt("missing end-of-segment marker")]

\* One segment: the names, the payload of the first segment up to the
\* post-processor's header, the payload, the end marker.
read_segment(data, b, block_index, overflow_checks) ==
    segment_end(data,
                drain(data,
                      [prime(data, segment_names(data, b), overflow_checks)
                          EXCEPT !.eos = FALSE],
                      overflow_checks),
                block_index)

\* loop { marker .. out.push(segment) }: a block ends at the marker 255.
RECURSIVE read_segments(_, _, _, _)
read_segments(data, b, block_index, overflow_checks) ==
    IF ~IsOk(b.err) THEN b
    ELSE LET marker == get_required(data, b.pos, "segment marker") IN
    IF ~IsOk(marker.err) THEN [b EXCEPT !.err = marker.err]
    ELSE IF marker.val = 255 THEN [b EXCEPT !.pos = marker.pos]
    ELSE IF marker.val # 1
        THEN [b EXCEPT !.err = Corrupt("missing segment or end-of-block marker")]
    ELSE read_segments(data,
                       read_segment(data, [b EXCEPT !.pos = marker.pos],
                                    block_index, overflow_checks),
                       block_index, overflow_checks)

\* Result<Vec<ZpaqExtractedSegment>>
Extracted(err, segments) == [err |-> err, segments |-> segments]

\* The locals of the scan loop of extract_unmodeled_bytes.
Scan(err, i, block_index, out) ==
    [err |-> err, i |-> i, block_index |-> block_index, out |-> out]

\* The body of the scan loop from parse_block_header on, for a magic at `at`.
extract_block(data, s, at, r, overflow_checks) ==
    IF ~IsOk(r.err) THEN [s EXCEPT !.err = r.err]
    ELSE IF ~r.some THEN [s EXCEPT !.i = at + 1]
    ELSE IF r.header.n_components # 0
        THEN [s EXCEPT !.err = InvalidFormat(
                 "modeled blocks are not supported yet; use zpaq -m0 for now")]
    ELSE LET b == read_segments(data,
                      Block(Ok, r.header.segment_offset, H32(0, 0),
                            PassOrProgramPostProcessor(r.header.ph, r.header.pm),
                            TRUE, s.out),
                      s.block_index, overflow_checks)
         IN  IF ~IsOk(b.err) THEN [s EXCEPT !.err = b.err]
             ELSE Scan(Ok,
                       IF b.pos > at + r.consumed THEN b.pos ELSE at + r.consumed,
                       s.block_index + 1, b.out)

\* while i + MAGIC_16.len() + 2 < data.len() { .. }
RECURSIVE extract_from(_, _, _)
extract_from(data, s, overflow_checks) ==
    IF ~IsOk(s.err) THEN Extracted(s.err, << >>)
    ELSE IF ~(s.i + Len(MAGIC_16) + 2 < Len(data)) THEN Extracted(Ok, s.out)
    ELSE LET rel == find_magic(Drop(data, s.i)) IN
         IF ~rel.some THEN Extracted(Ok, s.out)
         ELSE extract_from(data,
                           extract_block(data, s, s.i + rel.v,
                                         parse_block_header(data, s.i + rel.v),
                                         overflow_checks),
                           overflow_checks)

extract_unmodeled_bytes(data, overflow_checks) ==
    extract_from(data, Scan(Ok, 0, 0, << >>), overflow_checks)

\* ------------------------------------------------------------ the processes

VARIABLES
    pc,         \* where the running call stands: idle, compress, encode,
                \* header, decompress, done
    op,         \* the call: none, compress, decompress
    options,    \* the options compress was called with
    x,          \* the bytes given to compress
    input,      \* the unread bytes of the reader
    output,     \* the bytes the sink has received
    result,     \* the value the call returned (kind "None" while it runs)
    enc,        \* the locals of encode_lz77_block
    block_index,\* block_index of the running call
    stream,     \* the bytes given to decompress
    origin,     \* how that stream was made: own, truncated, substituted, crafted
    dopts,      \* the options decompress read from the stream header
    declared,   \* the uncompressed_len fields of the blocks decompress wrote
    call        \* a single call of a function: its name, arguments and value

vars == << pc, op, options, x, input, output, result, enc, block_index,
           stream, origin, dopts, declared, call >>

Running == [kind |-> "None", arg |-> Null]
NoOptions == CompressionOptions(Wide(0), 0, 0, 0, 0)
NoEnc == EncState(<< >>, 0, 0, Tables(EmptyTable, None), << >>, Best(0, 0), FALSE)
NoCall == [fn |-> "none"]

\* ---- the inputs of the model

\* The bytes of an input: 'a' and 'b'.
InputBytes == {97, 98}

RECURSIVE SeqsUpTo(_, _)
SeqsUpTo(S, n) ==
    IF n = 0 THEN {<< >>}
    ELSE LET shorter == SeqsUpTo(S, n - 1) IN
         shorter \cup {Append(q, b) : q \in {r \in shorter : Len(r) = n - 1}, b \in S}

Inputs == SeqsUpTo(InputBytes, MaxInput)

BlockSizes ==
    {Wide(0), Wide(1), Wide(2), Wide(3), [hi |-> 1, lo |-> 0], [hi |-> 1, lo |-> 1]}
OptionSet ==
    {CompressionOptions(bs, mm, sm, sl, tl) :
        bs \in BlockSizes, mm \in {0, 1, 2, 3, 65}, sm \in {0, 2, 3, 65},
        sl \in {0, 1, 11}, tl \in {7, 8, 29}}

\* At most one field of the options is out of range.
Faults(o) ==
    (IF WideIsZero(o.block_size) THEN 1 ELSE 0)
    + (IF o.min_match \in {0, 65} THEN 1 ELSE 0)
    + (IF o.secondary_match = 65 THEN 1 ELSE 0)
    + (IF o.search_log = 11 THEN 1 ELSE 0)
    + (IF o.table_log \in {7, 29} THEN 1 ELSE 0)

CompressOptions == {o \in OptionSet : Faults(o) <= 1}

\* The options of the streams that are damaged afterwards.
StreamOptions ==
    {CompressionOptions(Wide(bs), mm, sm, 0, 8) :
        bs \in {2, 3}, mm \in {1, 3}, sm \in {0, 2}}

\* Inputs with a match of min_match + 63 bytes and more: a short prefix, then
\* a period repeated up to a length, and two such stretches with bytes between.
RECURSIVE Cycle(_, _)
Cycle(period, n) ==
    IF n = 0 THEN << >>
    ELSE Cycle(period, n - 1) \o << period[((n - 1) % Len(period)) + 1] >>

Periods == {<< 97 >>, << 97, 98 >>, << 97, 97, 98 >>}
Prefixes == {<< >>, << 98, 97 >>}
\* Inputs where the tables hold two candidates of the same match length:
\* "aabac" and "bbabbbbaa".
TieInputs == {<< 97, 97, 98, 97, 99 >>, << 98, 98, 97, 98, 98, 98, 98, 97, 97 >>}
LongInputs ==
    {pre \o Cycle(per, MaxRun) : pre \in Prefixes, per \in Periods}
    \cup {Cycle(<< 97 >>, MaxRun) \o << 98, 98 >> \o Cycle(<< 97 >>, MaxRun)}
    \cup TieInputs
    \cup Inputs

\* Options with each kind of bucket and of secondary table, in one block.
LongOptions ==
    {CompressionOptions(Wide(4 * MaxRun), mm, sm, sl, 8) :
        mm \in {1, 2}, sm \in {0, 2, 4}, sl \in {0, 1, 5}}

\* ---- the buffers given to the ZPAQ scanner

\* The bytes after the magic: level, type, hsize, the four sizes hh hm ph pm,
\* n_components, the COMP section and the HCOMP section.
HeaderBody(level, zpaql_type, hsize, sizes, n_components, comp, hcomp) ==
    << level, zpaql_type, hsize % 256, hsize \div 256 >> \o sizes
    \o << n_components >> \o comp \o hcomp

\* hsize 7, no component, COMP END, HCOMP END.
MinimalBody == HeaderBody(2, 1, 7, << 0, 0, 0, 0 >>, 0, << 0 >>, << 0 >>)

\* Headers the parser takes.
GoodBodies(level) ==
    {HeaderBody(level, 1, 7, << 0, 0, 0, 0 >>, 0, << 0 >>, << 0 >>),
     HeaderBody(level, 1, 7, << 1, 2, 3, 4 >>, 0, << 0 >>, << 0 >>),
     HeaderBody(level, 1, 8, << 0, 0, 0, 0 >>, 0, << 0 >>, << 3, 0 >>),
     HeaderBody(level, 1, 9, << 0, 0, 0, 0 >>, 1, << 1, 5, 0 >>, << 0 >>),
     HeaderBody(level, 1, 12, << 0, 0, 0, 0 >>, 1, << 9, 0, 0, 0, 0, 0 >>, << 0 >>),
     HeaderBody(level, 1, 12, << 0, 0, 0, 0 >>, 2, << 1, 5, 2, 0, 0, 0 >>, << 0 >>)}

\* Headers with one fault: a component type outside the table, no COMP END,
\* no HCOMP, no HCOMP END, an hsize past the buffer, a component and a
\* component count past the header, an hsize below the fixed fields.
BadBodies(level) ==
    {HeaderBody(level, 1, 9, << 0, 0, 0, 0 >>, 1, << 0, 5, 0 >>, << 0 >>),
     HeaderBody(level, 1, 9, << 0, 0, 0, 0 >>, 1, << 10, 5, 0 >>, << 0 >>),
     HeaderBody(level, 1, 7, << 0, 0, 0, 0 >>, 0, << 1 >>, << 0 >>),
     HeaderBody(level, 1, 6, << 0, 0, 0, 0 >>, 0, << 0 >>, << >>),
     HeaderBody(level, 1, 7, << 0, 0, 0, 0 >>, 0, << 0 >>, << 1 >>),
     HeaderBody(level, 1, 200, << 0, 0, 0, 0 >>, 0, << 0 >>, << 0 >>),
     HeaderBody(level, 1, 7, << 0, 0, 0, 0 >>, 1, << 9, 0 >>, << >>),
     HeaderBody(level, 1, 7, << 0, 0, 0, 0 >>, 2, << 1, 0 >>, << >>),
     HeaderBody(level, 1, 0, << 0, 0, 0, 0 >>, 0, << 0 >>, << 0 >>)}

\* Every layout at the two levels, the minimal header at every level and
\* type, and headers cut inside the fixed fields.
HeaderBodies ==
    UNION {GoodBodies(level) \cup BadBodies(level) : level \in {1, 2}}
    \cup {HeaderBody(level, zpaql_type, 7, << 0, 0, 0, 0 >>, 0, << 0 >>, << 0 >>) :
            level \in {0, 1, 2, 3}, zpaql_type \in {0, 1, 2}}
    \cup {Take(MinimalBody, n) : n \in {0, 2, 3, 8}}

\* A chunk of the payload of a segment: its length as a big-endian u32 (below
\* 256 in the model), then its bytes.  The chunk of length 0 ends the payload.
Chunk(bytes) == << 0, 0, 0, Len(bytes) >> \o bytes

\* A segment: the marker 1, the two names, the reserved byte, the payload.
Segment(filename, comment, payload) ==
    << 1 >> \o filename \o << 0 >> \o comment \o << 0 >> \o << 0 >> \o payload

\* The segment "a" of a pass-through block holding "hi".
PassSegment == Segment(<< 97 >>, << >>, Chunk(<< 0, 104, 105 >>) \o Chunk(<< >>))

\* What follows a header: nothing, the end of the block, a byte that is no
\* marker, a segment without and with a SHA-1, a post-processor type of 255,
\* names outside ASCII with a payload in two chunks, and a second block.
ZpaqTails ==
    {<< >>,
     << 255 >>,
     << 7 >>,
     PassSegment \o << 254, 255 >>,
     PassSegment \o << 253 >> \o [k \in 1 .. Sha1Len |-> k] \o << 255 >>,
     Segment(<< 97 >>, << >>, Chunk(<< 255, 104 >>) \o Chunk(<< >>))
         \o << 254, 255 >>,
     Segment(<< 195, 169 >>, << 255 >>,
             Chunk(<< 0 >>) \o Chunk(<< 104 >>) \o Chunk(<< >>))
         \o << 254, 255 >>,
     PassSegment \o << 254, 255 >> \o MAGIC_16 \o MinimalBody \o << 255 >>}

\* Longest stretch of the start tag put in front of a block.
MaxGarbage == 2

\* A front (the first bytes of the start tag, or a whole magic), then the
\* magic, the start tag with other bytes after it or a magic cut short, then
\* a header and a tail; the empty buffer, "hello world" and the prefixes of
\* the magic.
ZpaqBuffers ==
    {f \o m \o b \o t :
        f \in {Take(START_TAG_13, n) : n \in 0 .. MaxGarbage} \cup {MAGIC_16},
        m \in {MAGIC_16, START_TAG_13 \o << 122, 80, 82 >>, Take(MAGIC_16, 15)},
        b \in HeaderBodies, t \in ZpaqTails}
    \cup {<< >>, << 104, 101, 108, 108, 111, 32, 119, 111, 114, 108, 100 >>}
    \cup {Take(MAGIC_16, n) : n \in 1 .. Len(MAGIC_16)}

\* ---- the archives given to extract_unmodeled_bytes

\* An unmodeled block: the magic, the minimal header, its segments, the
\* marker 255.
UnmodeledBlock(segments) == MAGIC_16 \o MinimalBody \o segments \o << 255 >>

\* Blocks of type 0: no segment; "hi" without and with a SHA-1; two segments,
\* the payload in several chunks, the second starting with a zero byte; a
\* segment without data; a segment whose data holds a magic and a header
\* start; two blocks.
PassArchives ==
    {UnmodeledBlock(<< >>),
     UnmodeledBlock(PassSegment \o << 254 >>),
     UnmodeledBlock(PassSegment \o << 253 >> \o [k \in 1 .. Sha1Len |-> 200 + k]),
     UnmodeledBlock(
         Segment(<< 97 >>, << 98 >>, Chunk(<< 0 >>) \o Chunk(<< 104 >>) \o Chunk(<< >>))
         \o << 254 >>
         \o Segment(<< 99 >>, << >>, Chunk(<< 0, 105 >>) \o Chunk(<< 1 >>) \o Chunk(<< >>))
         \o << 253 >> \o [k \in 1 .. Sha1Len |-> 200 + k]),
     UnmodeledBlock(Segment(<< >>, << >>, Chunk(<< 0 >>) \o Chunk(<< >>)) \o << 254 >>),
     UnmodeledBlock(
         Segment(<< 97 >>, << >>,
                 Chunk(<< 0 >> \o MAGIC_16 \o << 2, 1 >>) \o Chunk(<< >>))
         \o << 254 >>),
     UnmodeledBlock(PassSegment \o << 254 >>)
         \o UnmodeledBlock(
                Segment(<< 98 >>, << >>, Chunk(<< 0, 106 >>) \o Chunk(<< >>))
                \o << 254 >>)}

\* Largest PCOMP size of a short archive.
MaxProgram == 2

\* Blocks of type 1 with a program of n bytes: two segments with bytes after
\* the program; the type, the size and the program in chunks of their own and
\* nothing after the program; a block of type 0 before the block of type 1.
ProgramArchives ==
    UNION {
        {UnmodeledBlock(
             Segment(<< 112 >>, << >>,
                     Chunk(<< 1, n, 0 >> \o [k \in 1 .. n |-> 10 + k])
                     \o Chunk(<< 7, 8 >>) \o Chunk(<< >>))
             \o << 254 >>
             \o Segment(<< 113 >>, << >>, Chunk(<< 9 >>) \o Chunk(<< >>))
             \o << 254 >>),
         UnmodeledBlock(
             Segment(<< 112 >>, << >>,
                     Chunk(<< 1 >>) \o Chunk(<< n >>)
                     \o Chunk(<< 0 >> \o [k \in 1 .. n |-> 10 + k]) \o Chunk(<< >>))
             \o << 253 >> \o [k \in 1 .. Sha1Len |-> 200 + k]),
         UnmodeledBlock(PassSegment \o << 254 >>)
             \o UnmodeledBlock(
                    Segment(<< 112 >>, << >>,
                            Chunk(<< 1, n, 0 >> \o [k \in 1 .. n |-> 10 + k] \o << 7 >>)
                            \o Chunk(<< >>))
                    \o << 254 >>)}
        : n \in 1 .. MaxProgram}

\* Bytes without the magic: nothing, a zero, the magic cut short, the start
\* tag with other bytes and a header start after it, two markers.
Noise ==
    {<< >>, << 0 >>, Take(MAGIC_16, 15),
     START_TAG_13 \o << 122, 80, 82, 2, 1 >>, << 255, 1 >>}

\* What extract_unmodeled_bytes is given.  An archive between two stretches of
\* noise; the archives are those above and a block of type 1 with a program of
\* 256 bytes (size low 0, size high 1).  An archive cut short, and an archive
\* with one byte after the magic replaced by 0, 1, 2, 253 or 255.  A block
\* with and without components, alone and after an unmodeled block, and what
\* follows its header.
WalkInputs ==
    {[data |-> p \o a \o s, archive |-> a, framed |-> TRUE] :
        p \in Noise, s \in Noise,
        a \in PassArchives \cup ProgramArchives
              \cup {UnmodeledBlock(
                        Segment(<< 112 >>, << >>,
                                Chunk(<< 1, 0, 1 >>) \o Chunk([k \in 1 .. 200 |-> 9])
                                \o Chunk([k \in 1 .. 56 |-> 9]) \o Chunk(<< 5 >>)
                                \o Chunk(<< >>))
                        \o << 254 >>)}}
    \cup {[data |-> d, archive |-> d, framed |-> FALSE] :
            d \in UNION {{Take(a, n) : n \in 0 .. Len(a) - 1}
                         \cup {[a EXCEPT ![k] = v] :
                                 k \in Len(MAGIC_16) + 1 .. Len(a),
                                 v \in {0, 1, 2, 253, 255}}
                         : a \in PassArchives \cup ProgramArchives}}
    \cup {[data |-> a \o MAGIC_16 \o b \o t, archive |-> a \o MAGIC_16 \o b \o t,
           framed |-> FALSE] :
            a \in {<< >>, UnmodeledBlock(PassSegment \o << 254 >>)},
            b \in GoodBodies(1) \cup GoodBodies(2),
            t \in {<< >>, << 7 >>, << 255 >>, PassSegment \o << 254, 255 >>}}

\* ---- compress

Init ==
    /\ pc = "idle"
    /\ op = "none"
    /\ options = NoOptions
    /\ x = << >>
    /\ input = << >>
    /\ output = << >>
    /\ result = Running
    /\ enc = NoEnc
    /\ block_index = 0
    /\ stream = << >>
    /\ origin = "none"
    /\ dopts = NoOptions
    /\ declared = << >>
    /\ call = NoCall

\* compress(input, output, options): validation and the stream header.
CompressCall(choices, datas) ==
    /\ pc = "idle"
    /\ \E o \in choices, data \in datas :
        LET v == validate_options(o) IN
        /\ op' = "compress"
        /\ options' = o
        /\ x' = data
        /\ input' = data
        /\ IF IsOk(v)
            THEN /\ output' = write_stream_header(<< >>, o)
                 /\ result' = Running
                 /\ pc' = "compress"
            ELSE /\ output' = << >>
                 /\ result' = v
                 /\ pc' = "done"
    /\ UNCHANGED << enc, block_index, stream, origin, dopts, declared, call >>

Compress(choices) == CompressCall(choices, Inputs)

\* input.read(&mut in_block) of an in-memory reader: min(len, block_size) bytes.
ReadLen == MinWide(Len(input), options.block_size)

\* One iteration of the loop of compress, up to the call of the encoder.
CompressRead ==
    /\ pc = "compress"
    /\ ReadLen > 0
    /\ enc' = encode_begin(Take(input, ReadLen), options)
    /\ input' = Drop(input, ReadLen)
    /\ pc' = "encode"
    /\ UNCHANGED << op, options, x, output, result, block_index, stream, origin,
                    dopts, declared, call >>

\* One iteration of the loop of encode_lz77_block.
EncodeStep ==
    /\ pc = "encode"
    /\ enc.i < Len(enc.input)
    /\ enc' = encode_step(enc, options)
    /\ UNCHANGED << pc, op, options, x, input, output, result, block_index, stream,
                    origin, dopts, declared, call >>

\* The end of encode_lz77_block, and the rest of the iteration of compress.
CompressWrite ==
    /\ pc = "encode"
    /\ enc.i >= Len(enc.input)
    /\ LET encoded == encode_finish(enc)
           header == BlockHeader(AsU32(Wide(Len(enc.input))), AsU32(Wide(Len(encoded))))
       IN  output' = write_block_header(output, header) \o encoded
    /\ block_index' = block_index + 1
    /\ pc' = "compress"
    /\ UNCHANGED << op, options, x, input, result, enc, stream, origin, dopts,
                    declared, call >>

\* n == 0: the terminator, and Ok.
CompressEnd ==
    /\ pc = "compress"
    /\ ReadLen = 0
    /\ output' = write_block_header(output, BlockHeader(0, 0))
    /\ result' = Ok
    /\ pc' = "done"
    /\ UNCHANGED << op, options, x, input, enc, block_index, stream, origin, dopts,
                    declared, call >>

\* ---- decompress

\* decompress(input, output, _) is called on the bytes s.
StartDecompress(s, how) ==
    /\ op' = "decompress"
    /\ stream' = s
    /\ origin' = how
    /\ input' = s
    /\ output' = << >>
    /\ result' = Running
    /\ block_index' = 0
    /\ dopts' = NoOptions
    /\ declared' = << >>
    /\ pc' = "header"
    /\ UNCHANGED << options, x, enc, call >>

\* The stream compress wrote is given to decompress.
DecompressOwn ==
    /\ pc = "done" /\ op = "compress" /\ IsOk(result)
    /\ StartDecompress(output, "own")

\* A stream that decompress accepted, cut short.
DecompressTruncated ==
    /\ pc = "done" /\ op = "decompress" /\ origin = "own" /\ IsOk(result)
    /\ \E n \in 0 .. Len(stream) - 1 : StartDecompress(Take(stream, n), "truncated")

TamperBytes == {0, 65}

\* A stream that decompress accepted, with one byte changed.
DecompressSubstituted ==
    /\ pc = "done" /\ op = "decompress" /\ origin = "own" /\ IsOk(result)
    /\ \E p \in 1 .. Len(stream), v \in TamperBytes :
        /\ stream[p] # v
        /\ StartDecompress([stream EXCEPT ![p] = v], "substituted")

\* let options = read_stream_header(&mut input)?;
DecompressHeader ==
    /\ pc = "header"
    /\ LET r == read_stream_header(input) IN
        /\ input' = r.rest
        /\ IF IsOk(r.err)
            THEN /\ dopts' = r.val
                 /\ pc' = "decompress"
                 /\ result' = result
            ELSE /\ dopts' = dopts
                 /\ pc' = "done"
                 /\ result' = r.err
    /\ UNCHANGED << op, options, x, output, enc, block_index, stream, origin,
                    declared, call >>

\* One iteration of the loop of decompress.
DecompressBlock ==
    /\ pc = "decompress"
    /\ LET h == read_block_header(input)
           payload == read_exact(h.rest, h.val.compressed_len)
           decoded == decode_lz77_block(payload.bytes, h.val.uncompressed_len, dopts)
       IN  IF ~IsOk(h.err)
           THEN /\ result' = h.err /\ pc' = "done" /\ input' = h.rest
                /\ UNCHANGED << output, block_index, declared >>
           ELSE IF is_terminator(h.val)
           THEN /\ result' = Ok /\ pc' = "done" /\ input' = h.rest
                /\ UNCHANGED << output, block_index, declared >>
           ELSE IF ~IsOk(payload.err)
           THEN /\ result' = payload.err /\ pc' = "done" /\ input' = payload.rest
                /\ UNCHANGED << output, block_index, declared >>
           ELSE IF ~IsOk(decoded.err)
           THEN /\ result' = decoded.err /\ pc' = "done" /\ input' = payload.rest
                /\ UNCHANGED << output, block_index, declared >>
           ELSE /\ output' = output \o decoded.out
                /\ block_index' = block_index + 1
                /\ declared' = Append(declared, h.val.uncompressed_len)
                /\ input' = payload.rest
                /\ UNCHANGED << result, pc >>
    /\ UNCHANGED << op, options, x, enc, stream, origin, dopts, call >>

\* ---- hand-made streams

Magics == {MAGIC, <<98, 97, 100, 33>>, <<90, 80, 83, 50>>, <<122, 80, 83, 49>>}

HeaderBytes(magic, version, bs, mm, sm, sl, tl) ==
    magic \o << version >> \o to_le_bytes(bs) \o << mm, sm, sl, tl >>

Terminator == to_le_bytes(0) \o to_le_bytes(0)
\* A block of one literal token, and one whose match token has no source.
LiteralBlock == to_le_bytes(1) \o to_le_bytes(2) \o << 0, 97 >>
BadBlock == to_le_bytes(1) \o to_le_bytes(3) \o << 64, 0, 0 >>
\* A block that declares two bytes and encodes one.
ShortBlock == to_le_bytes(2) \o to_le_bytes(2) \o << 0, 97 >>

Tails ==
    { << >>, Terminator, LiteralBlock \o Terminator, BadBlock \o Terminator,
      LiteralBlock \o BadBlock \o Terminator, LiteralBlock \o LiteralBlock,
      ShortBlock \o BadBlock \o Terminator }

\* Blocks whose header has exactly one zero field.
ZeroLenBlock == to_le_bytes(0) \o to_le_bytes(2) \o << 0, 97 >>
EmptyBlock == to_le_bytes(1) \o to_le_bytes(0)

\* Bytes after a terminator, and blocks with a half-zero header.
TerminatedTails ==
    { Terminator \o LiteralBlock, LiteralBlock \o Terminator \o Terminator,
      LiteralBlock \o Terminator \o << 7 >>, ZeroLenBlock \o Terminator,
      EmptyBlock \o Terminator, LiteralBlock \o EmptyBlock \o Terminator }

CraftedStreams ==
    {HeaderBytes(m, v, bs, mm, sm, sl, tl) \o t :
        m \in Magics, v \in {0, 1, 2, 255}, bs \in {0, 1}, mm \in {0, 1, 64, 65},
        sm \in {0, 64, 65}, sl \in {0, 10, 11}, tl \in {7, 8, 28, 29}, t \in Tails}
    \cup {HeaderBytes(MAGIC, VERSION, 1, 1, 0, 0, 8) \o t : t \in TerminatedTails}
    \cup Magics

DecompressCrafted ==
    /\ pc = "idle"
    /\ \E s \in CraftedStreams : StartDecompress(s, "crafted")

\* ---- single calls

\* The bytes of a hand-made encoded block: literal and match lead bytes of
\* each kind, which are also offsets and data.
TokenBytes == {0, 1, 64, 65, 128, 192}
Payloads == SeqsUpTo(TokenBytes, MaxPayload)

CallDecode ==
    /\ call.fn = "none"
    /\ \E payload \in Payloads, expected \in 0 .. MaxExpected, mm \in {1, 64} :
        call' = [fn |-> "decode_lz77_block", input |-> payload, expected_len |-> expected,
                 min_match |-> mm,
                 ret |-> decode_lz77_block(payload, expected,
                                           CompressionOptions(Wide(4), mm, 0, 0, 8))]
    /\ UNCHANGED << pc, op, options, x, input, output, result, enc, block_index,
                    stream, origin, dopts, declared >>

MatchOffsets == {1, 2, 65536, 65537, MaxOffset}

CallEmitMatch ==
    /\ call.fn = "none"
    /\ \E mm \in 1 .. 64, off \in MatchOffsets :
       \E len \in mm .. mm + 255 :
        call' = [fn |-> "emit_match_tokens", len |-> len, off |-> off, min_match |-> mm,
                 lens |-> match_split(len, mm),
                 out |-> emit_match_tokens(<< >>, len, off, mm)]
    /\ UNCHANGED << pc, op, options, x, input, output, result, enc, block_index,
                    stream, origin, dopts, declared >>

\* A literal run of n bytes: 0, 1, 2, ...
Run(n) == [j \in 1 .. n |-> (j - 1) % 256]

CallEmitLiterals ==
    /\ call.fn = "none"
    /\ \E n \in 0 .. MaxLiterals :
        call' = [fn |-> "emit_literals", literals |-> Run(n),
                 lens |-> literal_chunks(n),
                 out |-> emit_literals(<< >>, Run(n))]
    /\ UNCHANGED << pc, op, options, x, input, output, result, enc, block_index,
                    stream, origin, dopts, declared >>

\* The length of the repeat appended to a literal run.
RepeatLen == 3

\* Lengths of literal runs around the multiples of 64.
EncodeRuns == (0 .. 3) \cup (62 .. 66) \cup (MaxLiterals - 4 .. MaxLiterals)

\* encode_lz77_block on a run of distinct bytes, alone or followed by a repeat
\* of its first bytes: pending literals at the end of the block and at a match.
CallEncode ==
    /\ call.fn = "none"
    /\ \E n \in EncodeRuns, m \in {0, RepeatLen} :
        LET data == Run(n) \o Take(Run(n), Min2(m, n))
            o == CompressionOptions(Wide(MaxLiterals + RepeatLen + 1), RepeatLen, 0, 0, 16)
        IN  call' = [fn |-> "encode_lz77_block", input |-> data, run |-> n,
                     min_match |-> o.min_match,
                     out |-> encode_lz77_block(data, o)]
    /\ UNCHANGED << pc, op, options, x, input, output, result, enc, block_index,
                    stream, origin, dopts, declared >>

\* A second scan that goes on from where the first one stopped: after the
\* last header the first scan returned.
InspectAgainResumed ==
    /\ call.fn = "inspect_bytes"
    /\ LET k == Len(call.ret.blocks)
           i == IF k = 0 THEN 0 ELSE call.ret.blocks[k].segment_offset
       IN  call' = [fn |-> "inspect_bytes again", data |-> call.data,
                    first |-> call.ret,
                    ret |-> inspect_from(call.data, i, << >>)]
    /\ UNCHANGED << pc, op, options, x, input, output, result, enc, block_index,
                    stream, origin, dopts, declared >>

\* inspect_bytes on the buffer of the call before.
InspectAgain ==
    /\ call.fn = "inspect_bytes"
    /\ call' = [fn |-> "inspect_bytes again", data |-> call.data,
                first |-> call.ret, ret |-> inspect_bytes(call.data)]
    /\ UNCHANGED << pc, op, options, x, input, output, result, enc, block_index,
                    stream, origin, dopts, declared >>


\* inspect_bytes on a buffer.
CallInspect ==
    /\ call.fn = "none"
    /\ \E data \in ZpaqBuffers :
        call' = [fn |-> "inspect_bytes", data |-> data, ret |-> inspect_bytes(data)]
    /\ UNCHANGED << pc, op, options, x, input, output, result, enc, block_index,
                    stream, origin, dopts, declared >>

\* extract_unmodeled_bytes on a buffer, in a build with and in one without
\* overflow checks.
CallExtract ==
    /\ call.fn = "none"
    /\ \E data \in ZpaqBuffers, overflow_checks \in BOOLEAN :
        call' = [fn |-> "extract_unmodeled_bytes", data |-> data,
                 overflow_checks |-> overflow_checks,
                 ret |-> extract_unmodeled_bytes(data, overflow_checks)]
    /\ UNCHANGED << pc, op, options, x, input, output, result, enc, block_index,
                    stream, origin, dopts, declared >>

\* ---- extract-zpaq of the command line

\* run_extract_zpaq up to the choice of the extractor: the output directory
\* is created, and the reference binary is taken when the fallback is allowed
\* and the binary exists.  The call keeps the extractors it ran, in order.
ExtractZpaqCall ==
    /\ call.fn = "none"
    /\ \E inp \in {w \in WalkInputs : ~w.framed},
          allow_reference_fallback \in BOOLEAN, reference_bin_exists \in BOOLEAN,
          overflow_checks \in BOOLEAN :
        call' = [fn |-> "run_extract_zpaq", data |-> inp.data,
                 allow_reference_fallback |-> allow_reference_fallback,
                 reference_bin_exists |-> reference_bin_exists,
                 overflow_checks |-> overflow_checks,
                 mode |-> IF allow_reference_fallback /\ reference_bin_exists
                            THEN "reference" ELSE "native-unmodeled",
                 phase |-> "extract", ran |-> << >>, files |-> << >>, ret |-> Ok]
    /\ UNCHANGED << pc, op, options, x, input, output, result, enc, block_index,
                    stream, origin, dopts, declared >>

\* run_reference_extract: the reference binary is a program outside the
\* repository; it cannot be started, or it ends with or without success.
ExtractZpaqReference ==
    /\ call.fn = "run_extract_zpaq" /\ call.phase = "extract"
    /\ call.mode = "reference"
    /\ \E status \in {"not started", "success", "failure"} :
        call' = [call EXCEPT
                   !.phase = "done", !.ran = Append(call.ran, "reference"),
                   !.ret = IF status = "success" THEN Ok
                           ELSE IF status = "failure"
                               THEN Err("Anyhow", "reference extractor failed with status")
                           ELSE Err("Anyhow", "running reference extractor")]
    /\ UNCHANGED << pc, op, options, x, input, output, result, enc, block_index,
                    stream, origin, dopts, declared >>

\* The native branch: extract_zpaq_unmodeled_file on the archive, then
\* write_native_segments, one file for each segment under its filename, or
\* under block<block_index>_segment.bin when the filename is empty.
ExtractZpaqNative ==
    /\ call.fn = "run_extract_zpaq" /\ call.phase = "extract"
    /\ call.mode = "native-unmodeled"
    /\ LET r == extract_unmodeled_bytes(call.data, call.overflow_checks)
           RECURSIVE decimal(_)
           decimal(n) == IF n < 10 THEN << 48 + n >>
                         ELSE decimal(n \div 10) \o << 48 + (n % 10) >>
           name(seg) == IF seg.filename = << >>
                            THEN << 98, 108, 111, 99, 107 >> \o decimal(seg.block_index)
                                 \o << 95, 115, 101, 103, 109, 101, 110, 116, 46, 98, 105, 110 >>
                        ELSE seg.filename
       IN  call' = [call EXCEPT
                      !.phase = "done", !.ran = Append(call.ran, "native"),
                      !.files = IF IsOk(r.err)
                                  THEN [k \in 1 .. Len(r.segments) |->
                                           [name |-> name(r.segments[k]),
                                            data |-> r.segments[k].data]]
                                ELSE << >>,
                      !.ret = r.err]
    /\ UNCHANGED << pc, op, options, x, input, output, result, enc, block_index,
                    stream, origin, dopts, declared >>

\* ---- inspect_bytes, step by step

\* A turn of the scan loop of inspect_bytes that moves one byte past every
\* magic, the one of an accepted header too.
InspectScanByOne ==
    /\ call.fn = "inspect" /\ call.phase = "scan"
    /\ LET s == call.s
           rel == find_magic(Drop(call.data, s.i))
           at == s.i + rel.v
           r == parse_block_header(call.data, at)
       IN  call' =
            IF ~(s.i + Len(MAGIC_16) + 2 < Len(call.data)) THEN [call EXCEPT !.phase = "done", !.ret = Inspected(Ok, s.out)]
            ELSE IF ~rel.some THEN [call EXCEPT !.phase = "done", !.ret = Inspected(Ok, s.out)]
            ELSE IF ~IsOk(r.err) THEN [call EXCEPT !.phase = "done", !.ret = Inspected(r.err, << >>)]
            ELSE IF ~r.some THEN [call EXCEPT !.s.i = at + 1]
            ELSE [call EXCEPT !.s = [i |-> at + 1, out |-> Append(s.out, r.header)]]
    /\ UNCHANGED << pc, op, options, x, input, output, result, enc, block_index,
                    stream, origin, dopts, declared >>

\* let mut out = Vec::new(); let mut i = 0usize;
InspectCall ==
    /\ call.fn = "none"
    /\ \E data \in ZpaqBuffers :
        call' = [fn |-> "inspect", data |-> data, phase |-> "scan",
                 s |-> [i |-> 0, out |-> << >>], ret |-> Inspected(Ok, << >>)]
    /\ UNCHANGED << pc, op, options, x, input, output, result, enc, block_index,
                    stream, origin, dopts, declared >>

\* One turn of the scan loop of inspect_bytes: the loop guard, the search for
\* the magic, the header, and the move of the cursor.
InspectScan ==
    /\ call.fn = "inspect" /\ call.phase = "scan"
    /\ LET s == call.s
           rel == find_magic(Drop(call.data, s.i))
           at == s.i + rel.v
           r == parse_block_header(call.data, at)
       IN  call' =
            IF ~(s.i + Len(MAGIC_16) + 2 < Len(call.data)) THEN [call EXCEPT !.phase = "done", !.ret = Inspected(Ok, s.out)]
            ELSE IF ~rel.some THEN [call EXCEPT !.phase = "done", !.ret = Inspected(Ok, s.out)]
            ELSE IF ~IsOk(r.err) THEN [call EXCEPT !.phase = "done", !.ret = Inspected(r.err, << >>)]
            ELSE IF ~r.some THEN [call EXCEPT !.s.i = at + 1]
            ELSE [call EXCEPT !.s = [i |-> at + r.consumed,
                                     out |-> Append(s.out, r.header)]]
    /\ UNCHANGED << pc, op, options, x, input, output, result, enc, block_index,
                    stream, origin, dopts, declared >>

\* ---- extract_unmodeled_bytes, step by step

\* The call: the buffer, the build, where the call stands (scan, marker,
\* names, prime, payload, end, done), the locals of the scan loop, the block
\* at hand (at, consumed, the locals of its segment loop) and the value
\* returned; and of the segment at hand, where its payload starts and whether
\* it is the first of its block (the value of first_segment at line 122).
Walk(inp, overflow_checks, phase, s, at, consumed, b, ret) ==
    [fn |-> "extract", data |-> inp.data, archive |-> inp.archive,
     framed |-> inp.framed, overflow_checks |-> overflow_checks,
     phase |-> phase, s |-> s, at |-> at, consumed |-> consumed, b |-> b,
     ret |-> ret, start |-> 0, first |-> FALSE]

\* The call ended with a value.
WalkDone(ret) == [call EXCEPT !.phase = "done", !.ret = ret]

ExtractCall ==
    /\ call.fn = "none"
    /\ \E inp \in WalkInputs, overflow_checks \in BOOLEAN :
        call' = Walk(inp, overflow_checks, "scan", Scan(Ok, 0, 0, << >>), 0, 0,
                     Block(Ok, 0, H32(0, 0), PassOrProgramPostProcessor(0, 0),
                           TRUE, << >>),
                     Extracted(Ok, << >>))
    /\ UNCHANGED << pc, op, options, x, input, output, result, enc, block_index,
                    stream, origin, dopts, declared >>

\* One turn of a scan loop that starts the segment loop of every block.
ExtractScanAny ==
    /\ call.fn = "extract" /\ call.phase = "scan"
    /\ LET s == call.s
           rel == find_magic(Drop(call.data, s.i))
           at == s.i + rel.v
           r == parse_block_header(call.data, at)
       IN  call' =
            IF ~(s.i + Len(MAGIC_16) + 2 < Len(call.data)) THEN WalkDone(Extracted(Ok, s.out))
            ELSE IF ~rel.some THEN WalkDone(Extracted(Ok, s.out))
            ELSE IF ~IsOk(r.err) THEN WalkDone(Extracted(r.err, << >>))
            ELSE IF ~r.some THEN [call EXCEPT !.s.i = at + 1]
            ELSE [call EXCEPT !.phase = "marker", !.at = at,
                              !.consumed = r.consumed,
                              !.b = Block(Ok, r.header.segment_offset, H32(0, 0),
                                          PassOrProgramPostProcessor(r.header.ph,
                                                                     r.header.pm),
                                          TRUE, s.out)]
    /\ UNCHANGED << pc, op, options, x, input, output, result, enc, block_index,
                    stream, origin, dopts, declared >>

\* One turn of the scan loop up to the segment loop: the loop guard, the search
\* for the magic, the header and the test of n_components.
ExtractScan ==
    /\ call.fn = "extract" /\ call.phase = "scan"
    /\ LET s == call.s
           rel == find_magic(Drop(call.data, s.i))
           at == s.i + rel.v
           r == parse_block_header(call.data, at)
       IN  call' =
            IF ~(s.i + Len(MAGIC_16) + 2 < Len(call.data)) THEN WalkDone(Extracted(Ok, s.out))
            ELSE IF ~rel.some THEN WalkDone(Extracted(Ok, s.out))
            ELSE IF ~IsOk(r.err) THEN WalkDone(Extracted(r.err, << >>))
            ELSE IF ~r.some THEN [call EXCEPT !.s.i = at + 1]
            ELSE IF r.header.n_components # 0
                THEN WalkDone(Extracted(InvalidFormat(
                         "modeled blocks are not supported yet; use zpaq -m0 for now"),
                         << >>))
            ELSE [call EXCEPT !.phase = "marker", !.at = at,
                              !.consumed = r.consumed,
                              !.b = Block(Ok, r.header.segment_offset, H32(0, 0),
                                          PassOrProgramPostProcessor(r.header.ph,
                                                                     r.header.pm),
                                          TRUE, s.out)]
    /\ UNCHANGED << pc, op, options, x, input, output, result, enc, block_index,
                    stream, origin, dopts, declared >>

\* A segment loop that takes every marker but 1 for the end of the block.
ExtractMarkerAnyEnd ==
    /\ call.fn = "extract" /\ call.phase = "marker"
    /\ LET marker == get_required(call.data, call.b.pos, "segment marker")
           after == call.at + call.consumed
       IN  call' =
            IF ~IsOk(marker.err) THEN WalkDone(Extracted(marker.err, << >>))
            ELSE IF marker.val # 1
                THEN [call EXCEPT !.phase = "scan", !.b.pos = marker.pos,
                                  !.s = Scan(Ok,
                                             IF marker.pos > after THEN marker.pos
                                             ELSE after,
                                             call.s.block_index + 1, call.b.out)]
            ELSE [call EXCEPT !.phase = "names", !.b.pos = marker.pos]
    /\ UNCHANGED << pc, op, options, x, input, output, result, enc, block_index,
                    stream, origin, dopts, declared >>

\* The marker at the head of the segment loop: 255 ends the block and moves
\* the scan, 1 begins a segment.
ExtractMarker ==
    /\ call.fn = "extract" /\ call.phase = "marker"
    /\ LET marker == get_required(call.data, call.b.pos, "segment marker")
           after == call.at + call.consumed
       IN  call' =
            IF ~IsOk(marker.err) THEN WalkDone(Extracted(marker.err, << >>))
            ELSE IF marker.val = 255
                THEN [call EXCEPT !.phase = "scan", !.b.pos = marker.pos,
                                  !.s = Scan(Ok,
                                             IF marker.pos > after THEN marker.pos
                                             ELSE after,
                                             call.s.block_index + 1, call.b.out)]
            ELSE IF marker.val # 1
                THEN WalkDone(Extracted(
                         Corrupt("missing segment or end-of-block marker"), << >>))
            ELSE [call EXCEPT !.phase = "names", !.b.pos = marker.pos]
    /\ UNCHANGED << pc, op, options, x, input, output, result, enc, block_index,
                    stream, origin, dopts, declared >>

\* A start of segment that gives every segment a post-processor of its own
\* and primes it.
ExtractNamesReset ==
    /\ call.fn = "extract" /\ call.phase = "names"
    /\ LET n == segment_names(call.data, call.b) IN
       call' = IF ~IsOk(n.err) THEN WalkDone(Extracted(n.err, << >>))
               ELSE [call EXCEPT !.phase = "prime",
                                 !.b = [n EXCEPT !.first_segment = FALSE,
                                                 !.pp = PassOrProgramPostProcessor(0, 0)],
                                 !.start = n.pos,
                                 !.first = call.b.first_segment]
    /\ UNCHANGED << pc, op, options, x, input, output, result, enc, block_index,
                    stream, origin, dopts, declared >>

\* The names and the reserved byte; first_segment is read and cleared.
ExtractNames ==
    /\ call.fn = "extract" /\ call.phase = "names"
    /\ LET n == segment_names(call.data, call.b) IN
       call' = IF ~IsOk(n.err) THEN WalkDone(Extracted(n.err, << >>))
               ELSE [call EXCEPT !.phase = IF call.b.first_segment THEN "prime"
                                           ELSE "payload",
                                 !.b = [n EXCEPT !.first_segment = FALSE],
                                 !.start = n.pos,
                                 !.first = call.b.first_segment]
    /\ UNCHANGED << pc, op, options, x, input, output, result, enc, block_index,
                    stream, origin, dopts, declared >>

\* One turn of while (pp.state() & 3) != 1.
ExtractPrime ==
    /\ call.fn = "extract" /\ call.phase = "prime"
    /\ LET n == payload_byte(call.data, call.b, call.overflow_checks) IN
       call' = IF call.b.pp.state % 4 = 1 THEN [call EXCEPT !.phase = "payload"]
               ELSE IF ~IsOk(n.err) THEN WalkDone(Extracted(n.err, << >>))
               ELSE [call EXCEPT !.b = n]
    /\ UNCHANGED << pc, op, options, x, input, output, result, enc, block_index,
                    stream, origin, dopts, declared >>

\* One turn of the payload loop: it ends at the end of the stream.
ExtractPayload ==
    /\ call.fn = "extract" /\ call.phase = "payload"
    /\ LET n == payload_byte(call.data, call.b, call.overflow_checks) IN
       call' = IF ~IsOk(n.err) THEN WalkDone(Extracted(n.err, << >>))
               ELSE [call EXCEPT !.phase = IF n.eos THEN "end" ELSE "payload", !.b = n]
    /\ UNCHANGED << pc, op, options, x, input, output, result, enc, block_index,
                    stream, origin, dopts, declared >>

\* The end marker, the SHA-1 and the push of the segment.
ExtractEnd ==
    /\ call.fn = "extract" /\ call.phase = "end"
    /\ LET n == segment_end(call.data, call.b, call.s.block_index) IN
       call' = IF ~IsOk(n.err) THEN WalkDone(Extracted(n.err, << >>))
               ELSE [call EXCEPT !.phase = "marker", !.b = n]
    /\ UNCHANGED << pc, op, options, x, input, output, result, enc, block_index,
                    stream, origin, dopts, declared >>

\* ---- the claims

\* The options are in the ranges the specification gives.
InRange(o) ==
    /\ ~(o.block_size.hi = 0 /\ o.block_size.lo = 0)
    /\ o.min_match \in 1 .. 64
    /\ o.secondary_match \in 0 .. 64
    /\ o.search_log \in 0 .. 10
    /\ o.table_log \in 8 .. 28

RECURSIVE Sum(_)
Sum(q) == IF Len(q) = 0 THEN 0 ELSE Head(q) + Sum(Tail(q))

\* The lead bytes of a token stream, as kind and low six bits.
RECURSIVE TokenLeads(_, _)
TokenLeads(bytes, i) ==
    IF i > Len(bytes) THEN << >>
    ELSE LET kind == bytes[i] \div 64
             low == bytes[i] % 64
         IN  << [kind |-> kind, low |-> low] >>
             \o TokenLeads(bytes, i + 1 + (IF kind = 0 THEN low + 1 ELSE kind + 1))

\* C1. Round-trip: for every input and every options value that passes
\* validation, compress succeeds, and decompress of what it wrote succeeds and
\* writes exactly the input.
C1_RoundTrip ==
    /\ (op = "compress" /\ pc = "done" /\ IsOk(validate_options(options)))
        => IsOk(result)
    /\ (op = "decompress" /\ origin = "own" /\ pc = "done")
        => (IsOk(result) /\ output = x)

\* C2. Header echo: the options read_stream_header returns on the bytes
\* write_stream_header wrote are, field by field, the options written.
C2_HeaderEcho ==
    (op = "decompress" /\ origin = "own" /\ pc # "header") => dopts = options

\* C3. Decoder contract: for every encoded block, expected length and
\* min_match, decode_lz77_block returns a buffer of exactly the expected length
\* or fails with Corrupt; it reads nothing outside the block or the output.
C3_DecoderContract ==
    call.fn = "decode_lz77_block" =>
        \/ call.ret.err.kind = "Ok" /\ Len(call.ret.out) = call.expected_len
        \/ call.ret.err.kind = "Corrupt"

C3_Witness ==
    /\ call.fn = "decode_lz77_block"
    /\ call.ret.err.kind = "Ok"
    /\ call.expected_len = 3
    /\ \E j \in 1 .. Len(call.input) : call.input[j] >= 64

C5_LengthLegality ==
    /\ call.fn = "emit_match_tokens" =>
        LET leads == TokenLeads(call.out, 1) IN
        /\ Len(leads) = Len(call.lens)
        /\ \A j \in 1 .. Len(call.lens) :
            /\ call.lens[j] >= call.min_match
            /\ call.lens[j] - call.min_match \in 0 .. 63
            /\ leads[j].kind \in 1 .. 3
            /\ leads[j].low = call.lens[j] - call.min_match
    /\ call.fn = "emit_literals" =>
        LET leads == TokenLeads(call.out, 1) IN
        /\ Len(leads) = Len(call.lens)
        /\ \A j \in 1 .. Len(call.lens) :
            /\ call.lens[j] - 1 \in 0 .. 63
            /\ leads[j].kind = 0
            /\ leads[j].low = call.lens[j] - 1

C5_Witness ==
    /\ call.fn = "emit_match_tokens"
    /\ call.min_match = 64
    /\ call.len = call.min_match + 64
    /\ Len(call.lens) = 2

\* C6. Bad magic: decompress of an input whose first four bytes are not "ZPS1"
\* fails with InvalidFormat("bad magic"), whatever follows, and writes nothing.
C6_BadMagic ==
    (op = "decompress" /\ pc # "header" /\ Len(stream) >= 4 /\ Take(stream, 4) # MAGIC)
        => /\ pc = "done"
           /\ result.kind = "InvalidFormat"
           /\ result.arg = "bad magic"
           /\ output = << >>

C6_Witness ==
    /\ op = "decompress" /\ pc = "done"
    /\ Len(stream) > 13
    /\ Take(stream, 3) = Take(MAGIC, 3)
    /\ stream[4] # MAGIC[4]
    /\ result.kind = "InvalidFormat"

\* The option fields of a 13-byte stream header are out of range.
HeaderOutOfRange(s) ==
    \/ (s[6] = 0 /\ s[7] = 0 /\ s[8] = 0 /\ s[9] = 0)
    \/ s[10] \notin 1 .. 64
    \/ s[11] \notin 0 .. 64
    \/ s[12] \notin 0 .. 10
    \/ s[13] \notin 8 .. 28

\* C7. The header is checked in the order magic, version, options: a version
\* v # 1 fails with UnsupportedVersion(v) even when the options are out of
\* range too; with version 1, options out of range fail with InvalidOption
\* before a block header is read or a byte is written.
C7_HeaderOrder ==
    (op = "decompress" /\ pc # "header" /\ Len(stream) >= 5 /\ Take(stream, 4) = MAGIC)
        => /\ stream[5] # VERSION =>
                /\ pc = "done"
                /\ result.kind = "UnsupportedVersion"
                /\ result.arg = stream[5]
                /\ output = << >>
           /\ (stream[5] = VERSION /\ Len(stream) >= 13 /\ HeaderOutOfRange(stream)) =>
                /\ pc = "done"
                /\ result.kind = "InvalidOption"
                /\ output = << >>
                /\ block_index = 0
                /\ input = Drop(stream, 13)

C7_Witness ==
    /\ op = "decompress" /\ pc = "done"
    /\ Len(stream) > 13
    /\ Take(stream, 4) = MAGIC
    /\ stream[5] = 2
    /\ HeaderOutOfRange(stream)
    /\ result.kind = "UnsupportedVersion"

\* C8. compress accepts exactly the options in range; for any other options
\* it fails with InvalidOption, having read nothing and written nothing.
C8_ValidatedOnEncode ==
    (op = "compress" /\ pc # "idle") =>
        /\ ~InRange(options) =>
            /\ pc = "done"
            /\ result.kind = "InvalidOption"
            /\ output = << >>
            /\ input = x
        /\ InRange(options) =>
            /\ result.kind # "InvalidOption"
            /\ Len(output) >= 13
            /\ pc = "done" => IsOk(result)

C8_Witness ==
    /\ op = "compress" /\ pc = "done"
    /\ result.kind = "InvalidOption"
    /\ Len(x) > 0
    /\ options.table_log = 7

\* C9 as claimed. A truncated stream is reported as Corrupt.
C9_TruncatedIsCorrupt ==
    (op = "decompress" /\ origin = "truncated" /\ pc = "done")
        => result.kind = "Corrupt"

\* C9. A truncated stream is reported as Io: when the input ends inside the
\* stream header, inside a block header, inside the compressed bytes of a block
\* or before the terminator, decompress fails with the end-of-file error of
\* read_exact, and never with Corrupt.
C9_TruncatedIsIo ==
    (op = "decompress" /\ origin = "truncated" /\ pc = "done")
        => (result.kind = "Io" /\ result.arg = "UnexpectedEof")

C9_Witness ==
    /\ op = "decompress" /\ origin = "truncated" /\ pc = "done"
    /\ block_index = 1
    /\ Len(input) = 0
    /\ result.kind = "Io"

\* C10 as claimed. When decompress fails, the sink has received no byte.
C10_NoPartialOutput ==
    (op = "decompress" /\ pc = "done" /\ ~IsOk(result)) => output = << >>

\* C10. When decompress fails at the k-th block, the sink has received the
\* decoded bytes of the blocks 1..k-1, complete and in order, and no byte of
\* block k: as many bytes as their headers declare, and for a truncated stream
\* the first k-1 blocks of the original input.
C10_PartialOutput ==
    (op = "decompress" /\ pc = "done" /\ ~IsOk(result)) =>
        /\ Len(declared) = block_index
        /\ Len(output) = Sum(declared)
        /\ origin = "truncated" =>
            output = Take(x, Min2(Len(x), block_index * options.block_size.lo))

C10_Witness ==
    /\ op = "decompress" /\ pc = "done"
    /\ origin = "substituted"
    /\ result.kind = "Corrupt"
    /\ block_index = 1
    /\ Len(output) = 2

\* A big-endian number, saturating at 2^20.
RECURSIVE BeCapped(_, _)
BeCapped(bytes, v) ==
    IF Len(bytes) = 0 THEN v
    ELSE BeCapped(Tail(bytes), Min2(v * 256 + Head(bytes), 1048576))

\* Walking the complete tokens of a payload from index i with `produced`
\* bytes decoded so far, the first token that cannot be decoded is a complete
\* match token whose offset exceeds `produced`.
RECURSIVE SourcelessMatch(_, _, _, _)
SourcelessMatch(bytes, i, produced, min_match) ==
    IF i > Len(bytes) THEN FALSE
    ELSE LET kind == bytes[i] \div 64
             low == bytes[i] % 64
         IN  IF kind = 0
             THEN /\ i + low + 1 <= Len(bytes)
                  /\ SourcelessMatch(bytes, i + low + 2, produced + low + 1, min_match)
             ELSE /\ i + kind + 1 <= Len(bytes)
                  /\ LET off == BeCapped(SubSeq(bytes, i + 1, i + kind + 1), 0) + 1
                     IN  \/ off > produced
                         \/ SourcelessMatch(bytes, i + kind + 2,
                                            produced + low + min_match, min_match)

\* C11. A payload whose first undecodable token is a complete match token
\* with an offset larger than the number of bytes decoded before it (a match
\* that comes first in the block, or offset = output length + 1) makes
\* decode_lz77_block return Corrupt("invalid match offset"); no byte of that
\* match is copied, so the call neither reads outside the output nor returns
\* any.
C11_SourcelessMatchRejected ==
    (call.fn = "decode_lz77_block"
        /\ SourcelessMatch(call.input, 1, 0, call.min_match)) =>
        /\ call.ret.err.kind = "Corrupt"
        /\ call.ret.err.arg = "invalid match offset"
        /\ call.ret.out = << >>

\* One literal byte, then a match at offset 2 = output length + 1.
C11_Witness ==
    /\ call.fn = "decode_lz77_block"
    /\ call.input = << 0, 1, 64, 0, 1 >>
    /\ SourcelessMatch(call.input, 1, 0, call.min_match)
    /\ call.ret.err.kind = "Corrupt"


\* C12. Empty input: under every options value that passes validation,
\* compress of the empty input writes the stream header, one block header of
\* two zero fields and nothing else, and decompress of these bytes returns Ok
\* with an empty output.
C12_EmptyInput ==
    /\ (op = "compress" /\ pc = "done" /\ IsOk(result) /\ x = << >>) =>
        /\ output = write_stream_header(<< >>, options) \o Terminator
        /\ block_index = 0
    /\ (op = "decompress" /\ origin = "own" /\ pc = "done" /\ x = << >>) =>
        /\ IsOk(result)
        /\ output = << >>

\* The blocks of a byte string that follows a stream header: the two fields
\* of each block header and the bytes the second field announces.
RECURSIVE Frames(_)
Frames(bytes) ==
    IF Len(bytes) < 8 THEN << >>
    ELSE LET u == from_le_bytes(SubSeq(bytes, 1, 4))
             c == from_le_bytes(SubSeq(bytes, 5, 8))
         IN  << [uncompressed_len |-> u, compressed_len |-> c,
                 payload |-> SubSeq(bytes, 9, Min2(8 + c, Len(bytes)))] >>
             \o Frames(Drop(bytes, Min2(8 + c, Len(bytes))))

\* The blocks compress wrote after its stream header.
WrittenFrames == Frames(Drop(output, Len(write_stream_header(<< >>, options))))

BothZero(f) == f.uncompressed_len = 0 /\ f.compressed_len = 0

\* The blocks of a sequence of blocks that are not terminators.
RECURSIVE DataFrames(_)
DataFrames(fs) ==
    IF Len(fs) = 0 THEN << >>
    ELSE (IF BothZero(Head(fs)) THEN << >> ELSE << Head(fs) >>) \o DataFrames(Tail(fs))

\* The decoded contents of a sequence of blocks, in order.
RECURSIVE DecodedFrames(_, _)
DecodedFrames(fs, o) ==
    IF Len(fs) = 0 THEN << >>
    ELSE decode_lz77_block(Head(fs).payload, Head(fs).uncompressed_len, o).out
         \o DecodedFrames(Tail(fs), o)

\* ceil(n / w) for an n below 2^31.
CeilDiv(n, w) ==
    IF w.hi > 0 THEN (IF n > 0 THEN 1 ELSE 0) ELSE (n + w.lo - 1) \div w.lo

\* n = w + d for a d in -1 .. 1, and n = 2 * w.
IsSizePlus(n, w, d) == w.hi = 0 /\ n = w.lo + d
IsTwice(n, w) == w.hi = 0 /\ n = 2 * w.lo

\* C13. Block partition: compress of n bytes writes ceil(n / block_size) data
\* blocks, each with 1 <= uncompressed_len <= block_size, whose decoded
\* contents in order are the input; inputs of block_size - 1, block_size,
\* block_size + 1 and 2 * block_size bytes give 1, 1, 2 and 2 data blocks,
\* and decompress of the stream returns the input.
C13_BlockPartition ==
    /\ (op = "compress" /\ pc = "done" /\ IsOk(result)) =>
        LET data == DataFrames(WrittenFrames)
            n == Len(x)
        IN  /\ Len(data) = CeilDiv(n, options.block_size)
            /\ \A k \in 1 .. Len(data) :
                /\ data[k].uncompressed_len >= 1
                /\ MinWide(data[k].uncompressed_len, options.block_size)
                    = data[k].uncompressed_len
            /\ DecodedFrames(data, options) = x
            /\ IsSizePlus(n, options.block_size, -1) => Len(data) = 1
            /\ IsSizePlus(n, options.block_size, 0) => Len(data) = 1
            /\ IsSizePlus(n, options.block_size, 1) => Len(data) = 2
            /\ IsTwice(n, options.block_size) => Len(data) = 2
    /\ (op = "decompress" /\ origin = "own" /\ pc = "done") =>
        /\ IsOk(result)
        /\ output = x

\* A block with all its announced bytes that decodes to its announced length.
GoodData(f, o) ==
    /\ ~BothZero(f)
    /\ Len(f.payload) = f.compressed_len
    /\ IsOk(decode_lz77_block(f.payload, f.uncompressed_len, o).err)

\* The blocks before the k-th are good data blocks.
GoodBefore(fs, k, o) == \A j \in 1 .. k - 1 : GoodData(fs[j], o)

\* The bytes of the first k blocks, headers included.
RECURSIVE FrameBytes(_, _)
FrameBytes(fs, k) ==
    IF k = 0 THEN 0 ELSE 8 + Len(fs[k].payload) + FrameBytes(fs, k - 1)

HalfZero(f) == (f.uncompressed_len = 0) # (f.compressed_len = 0)

\* The blocks of the stream given to decompress.
ReadFrames == Frames(Drop(stream, Len(stream) - Len(read_stream_header(stream).rest)))

\* C14. Terminator protocol. compress writes one block header of two zero
\* fields, as the last eight bytes of the stream, and no data block with such
\* a header. decompress returns Ok exactly when it meets such a header after
\* data blocks that all decode, it returns at the first one and leaves every
\* byte after it unread; a block header with exactly one zero field is
\* decoded as a data block (and fails as one) instead of ending the stream.
C14_TerminatorProtocol ==
    /\ (op = "compress" /\ pc = "done" /\ IsOk(result)) =>
        LET fs == WrittenFrames IN
        /\ Len(fs) >= 1
        /\ BothZero(fs[Len(fs)])
        /\ \A k \in 1 .. Len(fs) - 1 : ~BothZero(fs[k])
        /\ FrameBytes(fs, Len(fs)) + Len(write_stream_header(<< >>, options)) = Len(output)
        /\ Len(fs) = block_index + 1
    /\ (op = "decompress" /\ pc = "done" /\ IsOk(read_stream_header(stream).err)) =>
        LET fs == ReadFrames
            header == Len(stream) - Len(read_stream_header(stream).rest)
        IN
        /\ IsOk(result) <=>
            \E k \in 1 .. Len(fs) : BothZero(fs[k]) /\ GoodBefore(fs, k, dopts)
        /\ \A k \in 1 .. Len(fs) :
            (BothZero(fs[k]) /\ GoodBefore(fs, k, dopts)) =>
                /\ block_index = k - 1
                /\ input = Drop(stream, header + FrameBytes(fs, k))
        /\ \A k \in 1 .. Len(fs) :
            (HalfZero(fs[k]) /\ GoodBefore(fs, k, dopts)) =>
                /\ result.kind \in {"Corrupt", "Io"}
                /\ block_index = k - 1

\* decompress returned Ok at a terminator with bytes left unread after it.
C14_Witness ==
    /\ op = "decompress" /\ pc = "done"
    /\ IsOk(result)
    /\ block_index = 1
    /\ Len(input) > 0

\* compress has written the stream header and nothing else.
HeaderWritten == op = "compress" /\ pc = "compress" /\ block_index = 0

\* C15 as claimed. The stream header compress writes is 11 bytes long.
C15_HeaderIs11Bytes == HeaderWritten => Len(output) = 11

\* C15. The stream header compress writes is 13 bytes long: the magic "ZPS1",
\* the version 1, the low 32 bits of block_size as four little-endian bytes,
\* then min_match, secondary_match, search_log and table_log, one byte each;
\* the first block header (of the first data block, or the terminator of an
\* empty input) starts at the fourteenth byte.
C15_HeaderIs13Bytes ==
    /\ HeaderWritten =>
        /\ Len(output) = 13
        /\ SubSeq(output, 1, 4) = << 90, 80, 83, 49 >>
        /\ output[5] = 1
        /\ from_le_bytes(SubSeq(output, 6, 9)) = options.block_size.lo
        /\ SubSeq(output, 10, 13) = << options.min_match, options.secondary_match,
                                       options.search_log, options.table_log >>
    /\ (op = "compress" /\ pc = "done" /\ IsOk(result)) =>
        /\ Len(output) >= 21
        /\ from_le_bytes(SubSeq(output, 14, 17)) = MinWide(Len(x), options.block_size)
        /\ Len(x) > 0 =>
            from_le_bytes(SubSeq(output, 18, 21))
                = Len(encode_lz77_block(Take(x, MinWide(Len(x), options.block_size)),
                                        options))

\* A stream of two data blocks: its first block header follows the header.
C15_Witness ==
    /\ op = "compress" /\ pc = "done" /\ IsOk(result)
    /\ Len(output) > 13
    /\ block_index = 2
    /\ from_le_bytes(SubSeq(output, 14, 17)) = options.block_size.lo

\* In a token stream, every literal token that another literal token follows
\* carries 64 bytes.
FullBeforeLast(leads) ==
    \A k \in 1 .. Len(leads) - 1 :
        (leads[k].kind = 0 /\ leads[k + 1].kind = 0) => leads[k].low = 63

\* C16. Literal flushing: emit_literals writes a run of n bytes as
\* ceil(n / 64) literal tokens, each of 64 bytes except possibly the last,
\* that carry the bytes of the run in order (one token for 64 bytes, two for
\* 65); in a block that encode_lz77_block writes, the literals pending at a
\* match and at the end of the block are such groups of tokens, at their place
\* in the order of the input.
C16_LiteralFlushing ==
    /\ call.fn = "emit_literals" =>
        LET n == Len(call.literals)
            leads == TokenLeads(call.out, 1)
        IN  /\ Len(leads) = (n + 63) \div 64
            /\ \A k \in 1 .. Len(leads) :
                /\ leads[k].kind = 0
                /\ leads[k].low + 1 = (IF k < Len(leads) THEN 64 ELSE n - 64 * (k - 1))
            /\ Len(call.out) = n + Len(leads)
            /\ decode_from(call.out, 0, << >>, 1) = Decoded(Ok, call.literals)
            /\ n = 64 => Len(leads) = 1
            /\ n = 65 => Len(leads) = 2
    /\ call.fn = "encode_lz77_block" =>
        LET leads == TokenLeads(call.out, 1) IN
        /\ FullBeforeLast(leads)
        /\ decode_from(call.out, 0, << >>, call.min_match) = Decoded(Ok, call.input)
        /\ \A k \in 1 .. Len(leads) :
            (leads[k].kind # 0 /\ \A j \in 1 .. k - 1 : leads[j].kind = 0) =>
                Len(call.input) > call.run /\ k - 1 = (call.run + 63) \div 64

\* A run of 65 literals pending when a match is emitted: two literal tokens,
\* of 64 bytes and of one byte, then the match token.
C16_Witness ==
    /\ call.fn = "encode_lz77_block"
    /\ call.run = 65
    /\ Len(TokenLeads(call.out, 1)) = 3
    /\ TokenLeads(call.out, 1)[1] = [kind |-> 0, low |-> 63]
    /\ TokenLeads(call.out, 1)[2] = [kind |-> 0, low |-> 0]
    /\ TokenLeads(call.out, 1)[3].kind = 1

\* A big-endian number of at most three significant bytes.
RECURSIVE BeValue(_, _)
BeValue(bytes, v) ==
    IF Len(bytes) = 0 THEN v ELSE BeValue(Tail(bytes), v * 256 + Head(bytes))

\* The tokens of a stream of match tokens: the low six bits of each lead byte
\* and the offset its offset bytes spell.
RECURSIVE MatchTokens(_, _)
MatchTokens(bytes, i) ==
    IF i > Len(bytes) THEN << >>
    ELSE LET kind == bytes[i] \div 64
             low == bytes[i] % 64
         IN  << [kind |-> kind, low |-> low,
                 off |-> BeValue(SubSeq(bytes, i + 1, i + kind + 1), 0) + 1] >>
             \o MatchTokens(bytes, i + kind + 2)

RECURSIVE SumLens(_, _)
SumLens(ts, min_match) ==
    IF Len(ts) = 0 THEN 0 ELSE Head(ts).low + min_match + SumLens(Tail(ts), min_match)

\* C17. Long-match tokenization: emit_match_tokens writes a match of length
\* L at offset off as consecutive match tokens and nothing else; every token
\* spells the offset off, and the token lengths (low six bits + min_match)
\* add up to L. A match of min_match + 63 is one token and a match of
\* min_match + 64 is two, for every min_match in 1..64.
C17_LongMatch ==
    call.fn = "emit_match_tokens" =>
        LET ts == MatchTokens(call.out, 1) IN
        /\ Len(ts) >= 1
        /\ \A k \in 1 .. Len(ts) :
            /\ ts[k].kind \in 1 .. 3
            /\ ts[k].off = call.off
        /\ Len(call.out) = Sum([k \in 1 .. Len(ts) |-> ts[k].kind + 2])
        /\ SumLens(ts, call.min_match) = call.len
        /\ call.len = call.min_match + 63 => Len(ts) = 1
        /\ call.len = call.min_match + 64 => Len(ts) = 2

\* A match of min_match + 64 at offset 1 with the largest min_match: two
\* tokens of offset 1.
C17_Witness ==
    /\ call.fn = "emit_match_tokens"
    /\ call.min_match = 64
    /\ call.len = 128
    /\ call.off = 1
    /\ Len(MatchTokens(call.out, 1)) = 2
    /\ MatchTokens(call.out, 1)[2].off = 1

\* The number of bytes, at most max, that data holds both from p and from i.
CommonLength(data, p, i, max) ==
    LET same == {l \in 0 .. max : \A j \in 0 .. l - 1 : At(data, p + j) = At(data, i + j)}
    IN  CHOOSE l \in same : \A m \in same : m <= l

\* The candidates a table holds in the slots hash ^ k, k = 0 .. bucket, at
\* cursor i: the match length and the offset of each stored earlier position.
SlotCandidates(data, i, table, hash, search) ==
    LET slots == {BitXor(hash, k) % Pow2(search.table_log) : k \in 0 .. search.bucket}
        held == {s \in slots : Lookup(table, s) # 0 /\ Lookup(table, s) - 1 < i}
    IN  {Best(CommonLength(data, Lookup(table, s) - 1, i,
                           Min2(Len(data) - i, 255 + search.min_match)),
              i - (Lookup(table, s) - 1)) : s \in held}

\* The candidates in the slots that the search at the cursor of e probes, in
\* the secondary and in the primary table.
StoredCandidates(e, o) ==
    LET search == SearchContext(o)
        second ==
            IF e.tables.h2.some /\ e.i + o.secondary_match <= Len(e.input)
            THEN SlotCandidates(e.input, e.i, e.tables.h2.v,
                     MaskTo(hash_slice(Slice(e.input, e.i, e.i + o.secondary_match)),
                            o.table_log), search)
            ELSE {}
        first ==
            SlotCandidates(e.input, e.i, e.tables.h1,
                MaskTo(hash_slice(Slice(e.input, e.i, e.i + o.min_match)), o.table_log),
                search)
    IN  IF e.i + o.min_match <= Len(e.input) THEN second \cup first ELSE {}

\* The search of the slot `hash` alone.
FirstSlot(o) ==
    [min_match |-> o.min_match, table_log |-> o.table_log, bucket |-> 0]

\* The locals of the encoder before the step that emitted the last match: the
\* tables hold every position before the cursor.
BeforeMatch(e, o) ==
    LET start == e.i - e.best.len IN
    EncState(e.input, start, start,
             update_range(e.input, 0, start, o, encode_begin(e.input, o).tables),
             << >>, Best(0, 0), FALSE)

\* C18. Tie-break: when a step of the encoder emits a match (len, off), no
\* candidate held in a slot that the search of this step probes, in the
\* secondary or in the primary table, examined or left out by the early-out
\* at min_match + 63, has the length len and an offset below off.
C18_TieBreak ==
    [][(pc = "encode" /\ pc' = "encode" /\ enc'.emitted) =>
        \A c \in StoredCandidates(enc, options) :
            ~(c.len = enc'.best.len /\ c.off < enc'.best.off)]_vars

\* A match of at least min_match + 63 bytes was emitted from the first slot
\* of the primary table, where the search stopped, while a later slot of the
\* bucket held a candidate at another offset.
C18_Witness ==
    /\ pc = "encode" /\ enc.emitted
    /\ enc.best.len >= options.min_match + 63
    /\ options.secondary_match = 0
    /\ enc.i - enc.best.len <= MaxInput
    /\ LET e == BeforeMatch(enc, options)
           h == MaskTo(hash_slice(Slice(e.input, e.i, e.i + options.min_match)),
                       options.table_log)
       IN  /\ SlotCandidates(e.input, e.i, e.tables.h1, h, FirstSlot(options)) = {enc.best}
           /\ \E c \in StoredCandidates(e, options) : c.off # enc.best.off

\* The header of the test parses_minimal_header: magic, level 2, type 1,
\* hsize 7, five zero bytes, COMP END, HCOMP END.
MinimalHeader == MAGIC_16 \o << 2, 1, 7, 0, 0, 0, 0, 0, 0, 0, 0 >>

\* What a returned header says of the buffer it was read from.
HeaderHolds(data, b) ==
    /\ b.level \in {1, 2}
    /\ b.zpaql_type = 1
    /\ b.comp_bytes + b.hcomp_bytes = b.hsize
    /\ b.hcomp_bytes >= 1
    /\ b.segment_offset = b.start_offset + 18 + b.hsize + 2
    /\ b.segment_offset <= Len(data)
    /\ data[b.start_offset + 18 + 2 + b.comp_bytes] = 0
    /\ data[b.segment_offset] = 0

\* C19: every header inspect_bytes returns has level 1 or 2, type 1,
\* comp_bytes + hcomp_bytes = hsize, hcomp_bytes >= 1, segment_offset =
\* start_offset + 18 + hsize + 2 within the buffer, a zero byte at the end of
\* the COMP section and a zero byte at the end of the header; the minimal
\* header gives exactly one block, with n_components = 0 and hsize = 7.
C19_ReturnedHeaders ==
    call.fn = "inspect_bytes" =>
        /\ IsOk(call.ret.err) =>
            \A k \in 1 .. Len(call.ret.blocks) :
                HeaderHolds(call.data, call.ret.blocks[k])
        /\ call.data = MinimalHeader =>
            /\ IsOk(call.ret.err)
            /\ Len(call.ret.blocks) = 1
            /\ call.ret.blocks[1].n_components = 0
            /\ call.ret.blocks[1].hsize = 7

\* inspect_bytes has returned the one block of the minimal header.
C19_Witness ==
    /\ call.fn = "inspect_bytes"
    /\ call.data = MinimalHeader
    /\ IsOk(call.ret.err)
    /\ Len(call.ret.blocks) = 1
    /\ call.ret.blocks[1].start_offset = 0
    /\ call.ret.blocks[1].segment_offset = Len(MinimalHeader)

\* The 16 bytes of the magic stand somewhere in the buffer.
ContainsMagic(data) ==
    \E w \in 1 .. Len(data) - 15 : SubSeq(data, w, w + 15) = MAGIC_16

\* The list a call of the scanner returned.
Returned(c) ==
    IF c.fn = "inspect_bytes" THEN c.ret.blocks ELSE c.ret.segments

\* C20: on a buffer without the 16-byte magic, the empty buffer and buffers
\* shorter than the magic among them, inspect_bytes and
\* extract_unmodeled_bytes return an empty list and no error.
C20_NoMagicNoBlocks ==
    (call.fn \in {"inspect_bytes", "extract_unmodeled_bytes"}
        /\ ~ContainsMagic(call.data)) =>
        IsOk(call.ret.err) /\ Returned(call) = << >>

\* extract_unmodeled_bytes has returned nothing for a buffer that holds the
\* start tag and a well-formed header after it, and not the magic.
C20_Witness ==
    /\ call.fn = "extract_unmodeled_bytes"
    /\ call.data = START_TAG_13 \o << 122, 80, 82 >> \o MinimalBody
    /\ ~ContainsMagic(call.data)
    /\ IsOk(call.ret.err)
    /\ call.ret.segments = << >>

\* C21: for a valid archive between two stretches of bytes without the magic,
\* extract_unmodeled_bytes returns without error the segments it returns for
\* the archive alone: the same block_index, filename, comment, data and sha1,
\* in the same order.
C21_ScannerTolerance ==
    (call.fn = "extract" /\ call.phase = "done" /\ call.framed) =>
        /\ IsOk(call.ret.err)
        /\ call.ret = extract_unmodeled_bytes(call.archive, call.overflow_checks)

\* The call has returned two segments and more for an archive with noise in
\* front of it and after it.
C21_Witness ==
    /\ call.fn = "extract" /\ call.phase = "done" /\ call.framed
    /\ Len(call.data) > Len(call.archive) + 18
    /\ IsOk(call.ret.err)
    /\ Len(call.ret.segments) >= 2
    /\ call.ret.segments[2].block_index = 1

ModeledBlockError ==
    InvalidFormat("modeled blocks are not supported yet; use zpaq -m0 for now")

\* The scan loop of the call stands at a magic with a well-formed header
\* after it, and that header has components.
AtModeledBlock ==
    LET i == call.s.i
        rel == find_magic(Drop(call.data, i))
        r == parse_block_header(call.data, i + rel.v)
    IN  /\ i + 18 < Len(call.data)
        /\ rel.some
        /\ IsOk(r.err) /\ r.some
        /\ r.header.n_components # 0

\* C23: when the scan of extract_unmodeled_bytes comes to a well-formed block
\* header with n_components # 0 the call ends with InvalidFormat("modeled
\* blocks are not supported yet; use zpaq -m0 for now") and without segments,
\* whatever was decoded before; the segment loop is entered only at a header
\* whose n_components byte is 0.
C23_ModeledBlocksRejected ==
    [][(call.fn = "extract" /\ call.phase = "scan") =>
            /\ AtModeledBlock =>
                (call'.phase = "done"
                    /\ call'.ret.err = ModeledBlockError
                    /\ call'.ret.segments = << >>)
            /\ call'.phase = "marker" => call.data[call'.at + 18 + 6 + 1] = 0]_vars

\* The call has ended at a block with components after it had decoded a
\* segment of the block before.
C23_Witness ==
    /\ call.fn = "extract" /\ call.phase = "done"
    /\ call.ret.err = ModeledBlockError
    /\ call.ret.segments = << >>
    /\ Len(call.s.out) = 1

\* The places of the magic in a buffer, counted from 0.
MagicPlaces(data) ==
    {w \in 0 .. Len(data) - 16 : SubSeq(data, w + 1, w + 16) = MAGIC_16}

\* The first magic of the buffer has a level of 1 or 2 and a type of 1 after
\* it, and the header that follows is cut short or not well formed.
BadCandidate(data) ==
    /\ MagicPlaces(data) # {}
    /\ LET w == CHOOSE v \in MagicPlaces(data) : \A u \in MagicPlaces(data) : v <= u
       IN  /\ Len(data) >= w + 18
           /\ data[w + 17] \in {1, 2}
           /\ data[w + 18] = 1
           /\ ~IsOk(parse_block_header(data, w).err)

\* C24: when the first magic of a buffer is followed by a level byte in
\* {1, 2} and a type byte 1 and the header after them is truncated or not
\* well formed, inspect_bytes returns Corrupt: it does not pass over that
\* candidate.
C24_StrictOnCandidate ==
    (call.fn = "inspect_bytes" /\ BadCandidate(call.data)) =>
        call.ret.err.kind = "Corrupt"

\* The place of the first zero byte of the buffer at or after p, counted from
\* 0; the length of the buffer when there is none.
FirstNul(data, p) ==
    IF \E q \in p .. Len(data) - 1 : At(data, q) = 0
        THEN CHOOSE q \in p .. Len(data) - 1 :
                 /\ At(data, q) = 0
                 /\ \A r \in p .. q - 1 : At(data, r) # 0
    ELSE Len(data)

\* The call ends here with Corrupt and no segment.
EndsCorrupt ==
    /\ call'.phase = "done"
    /\ call'.ret.err.kind = "Corrupt"
    /\ call'.ret.segments = << >>

\* The marker read at the head of the segment loop.
MarkerStep ==
    (call.fn = "extract" /\ call.phase = "marker") =>
        LET p == call.b.pos IN
        IF p >= Len(call.data) THEN EndsCorrupt
        ELSE IF At(call.data, p) = 255
            THEN /\ call'.phase = "scan"
                 /\ call'.s.block_index = call.s.block_index + 1
                 /\ call'.s.i >= p + 1
                 /\ call'.s.out = call.b.out
        ELSE IF At(call.data, p) = 1
            THEN /\ call'.phase = "names"
                 /\ call'.b.pos = p + 1
                 /\ call'.b.out = call.b.out
        ELSE /\ EndsCorrupt
             /\ call'.ret.err = Corrupt("missing segment or end-of-block marker")

\* The filename, the comment and the reserved byte after the marker 1.
NamesStep ==
    (call.fn = "extract" /\ call.phase = "names") =>
        LET p == call.b.pos
            f == FirstNul(call.data, p)
            c == FirstNul(call.data, f + 1)
        IN  IF f >= Len(call.data) \/ c + 1 >= Len(call.data) THEN EndsCorrupt
            ELSE IF At(call.data, c + 1) # 0
                THEN /\ EndsCorrupt
                     /\ call'.ret.err = Corrupt("missing reserved byte after comment")
            ELSE /\ call'.phase \in {"prime", "payload"}
                 /\ call'.b.pos = c + 2
                 /\ call'.b.filename = from_utf8_lossy(Slice(call.data, p, f))
                 /\ call'.b.comment = from_utf8_lossy(Slice(call.data, f + 1, c))
                 /\ call'.b.data = << >>
                 /\ call'.b.out = call.b.out

\* C25: the segment loop of an unmodeled block starts at segment_offset and
\* reads one marker: 255 ends the block, 1 begins a segment, another byte is
\* Corrupt; a segment has a filename and a comment, each up to a zero byte,
\* and a reserved byte that is 0, or the call is Corrupt.  A buffer that ends
\* before the marker 255 is Corrupt: the call returns Ok only from the scan
\* loop, which a block is left for only at its marker 255.
C25_SegmentStart ==
    [][/\ MarkerStep
       /\ NamesStep
       /\ (call.fn = "extract" /\ call.phase = "scan" /\ call'.phase = "marker") =>
            /\ parse_block_header(call.data, call'.at).some
            /\ call'.b.pos =
                 parse_block_header(call.data, call'.at).header.segment_offset
       /\ (call.fn = "extract" /\ call.phase # "done" /\ call'.phase = "done"
           /\ IsOk(call'.ret.err)) => call.phase = "scan"
       /\ (call.fn = "extract" /\ call.phase # "scan" /\ call'.phase = "scan") =>
            /\ call.phase = "marker"
            /\ At(call.data, call.b.pos) = 255]_vars

\* A call that returned two segments of two blocks, each closed by its marker
\* 255, the first with a filename and a comment.
C25_Witness ==
    /\ call.fn = "extract" /\ call.phase = "done" /\ IsOk(call.ret.err)
    /\ Len(call.ret.segments) = 2
    /\ call.ret.segments[1].filename # << >>
    /\ call.s.block_index = 2

\* The end marker read after the end of the payload, and the push.
EndStep ==
    (call.fn = "extract" /\ call.phase = "end") =>
        LET p == call.b.pos
            pushed(sha1) == Append(call.b.out,
                                ZpaqExtractedSegment(call.s.block_index,
                                    call.b.filename, call.b.comment, call.b.data,
                                    sha1))
        IN  IF p >= Len(call.data) THEN EndsCorrupt
            ELSE IF At(call.data, p) = 254
                THEN /\ call'.phase = "marker"
                     /\ call'.b.pos = p + 1
                     /\ call'.b.out = pushed(None)
            ELSE IF At(call.data, p) = 253
                THEN IF Len(call.data) - (p + 1) < 20 THEN EndsCorrupt
                     ELSE /\ call'.phase = "marker"
                          /\ call'.b.pos = p + 21
                          /\ call'.b.out =
                               pushed(Some([k \in 1 .. 20 |-> At(call.data, p + k)]))
            ELSE /\ EndsCorrupt
                 /\ call'.ret.err = Corrupt("missing end-of-segment marker")

\* The segments pushed so far change at no other step.
PushedElsewhere ==
    /\ (call.fn = "extract" /\ call.phase \in {"marker", "names", "prime", "payload"}
        /\ call'.phase \notin {"scan", "done"}) => call'.b.out = call.b.out
    /\ (call.fn = "extract" /\ call.phase = "marker" /\ call'.phase = "scan") =>
            call'.s.out = call.b.out
    /\ (call.fn = "extract" /\ call.phase = "scan" /\ call'.phase = "scan") =>
            call'.s.out = call.s.out
    /\ (call.fn = "extract" /\ call.phase = "scan" /\ call'.phase = "marker") =>
            call'.b.out = call.s.out
    /\ (call.fn = "extract" /\ call.phase = "scan" /\ call'.phase = "done"
        /\ IsOk(call'.ret.err)) => call'.ret.segments = call.s.out

\* C26: after the end of the payload one end marker is read: 254 gives a
\* segment without a hash, 253 a segment whose sha1 is the 20 bytes after it,
\* another byte or fewer than 20 bytes after 253 is Corrupt.  A segment is
\* pushed only when its end marker was accepted, at the end of the result,
\* with the index of the block at hand, so the result is in the order of the
\* archive and its block_index never decreases.
C26_SegmentEnd ==
    [][/\ EndStep
       /\ PushedElsewhere
       /\ (call.fn = "extract" /\ call'.phase = "end" /\ call.phase # "end") =>
            (call.phase = "payload" /\ call'.b.eos)
       /\ (call.fn = "extract" /\ call.phase = "done") =>
            \A j \in 1 .. Len(call.ret.segments) - 1 :
                call.ret.segments[j].block_index
                    <= call.ret.segments[j + 1].block_index]_vars

\* A call that returned a segment with a hash after a segment without one,
\* and a call that returned segments of two blocks.
C26_Witness ==
    /\ call.fn = "extract" /\ call.phase = "done" /\ IsOk(call.ret.err)
    /\ Len(call.ret.segments) = 2
    /\ call.ret.segments[1].sha1 = None
    /\ call.ret.segments[2].sha1 = Some([k \in 1 .. 20 |-> 200 + k])
    /\ call.ret.segments[2].data = << 0, 105, 1 >>

\* The post-processor is in state 0 and the payload has a byte or its end for
\* it.
AtTypeByte ==
    /\ call.fn = "extract" /\ call.phase = "prime"
    /\ call.b.pp.state = 0
    /\ IsOk(decompress_unmodeled_byte(call.data, call.b.pos, call.b.curr).err)

\* C27: in state 0 the byte t of the payload sets the state to t + 1: t = 0
\* gives state 1 and t = 1 gives state 2, and the write succeeds; every other
\* byte, 255 among them, and the end of the stream fail with Corrupt.
C27_TypeByte ==
    [][AtTypeByte =>
        LET t == decompress_unmodeled_byte(call.data, call.b.pos, call.b.curr).c
        IN  IF t \in {0, 1}
                THEN /\ call'.phase = "prime"
                     /\ call'.b.pp.state = t + 1
                     /\ call'.b.data = << >>
            ELSE EndsCorrupt]_vars

\* The payload that starts at p, read from the bytes of the buffer: chunks of
\* a length of four bytes, highest first, and that many bytes, up to the first
\* chunk of length 0.  ok is FALSE when the buffer ends before that chunk; the
\* buffers are shorter than 65536 bytes, so a length with a high half other
\* than 0 exceeds what is left.
RECURSIVE ChunkBodies(_, _)
ChunkBodies(data, p) ==
    IF p + 4 > Len(data) THEN [ok |-> FALSE, bytes |-> << >>, end |-> p]
    ELSE LET n == 256 * At(data, p + 2) + At(data, p + 3) IN
         IF At(data, p) # 0 \/ At(data, p + 1) # 0 \/ p + 4 + n > Len(data)
             THEN [ok |-> FALSE, bytes |-> << >>, end |-> p]
         ELSE IF n = 0 THEN [ok |-> TRUE, bytes |-> << >>, end |-> p + 4]
         ELSE LET rest == ChunkBodies(data, p + 4 + n) IN
              [ok |-> rest.ok,
               bytes |-> [k \in 1 .. n |-> At(data, p + 3 + k)] \o rest.bytes,
               end |-> rest.end]

\* The segment at hand belongs to a block of type 0.
PassThrough == call.fn = "extract" /\ call.b.pp.state = 1

\* C28: in a block of type 0 the data of a segment is the bodies of the
\* chunks of its payload, in order, up to the first chunk of length 0, without
\* the type byte when the segment is the first of its block; the lengths are
\* big-endian u32; the chunk of length 0 adds nothing and ends the segment; a
\* chunk longer than what is left of the buffer ends the call with Corrupt.
C28_PassThroughPayload ==
    [][/\ (PassThrough /\ call.phase = "end") =>
            LET r == ChunkBodies(call.data, call.start) IN
            /\ r.ok
            /\ call.b.pos = r.end
            /\ call.b.data = IF call.first THEN Tail(r.bytes) ELSE r.bytes
       /\ (PassThrough /\ call.phase = "payload"
           /\ ~ChunkBodies(call.data, call.start).ok) =>
            \/ call'.phase = "payload" /\ call'.b.pos > call.b.pos
            \/ EndsCorrupt
       /\ (PassThrough /\ call.phase = "payload"
           /\ ChunkBodies(call.data, call.start).ok) =>
            call'.phase \in {"payload", "end"}
       /\ (PassThrough /\ call.phase = "payload" /\ call'.phase = "end") =>
            call'.b.data = call.b.data]_vars

\* The second segment of a block of type 0 at the end of its payload of two
\* chunks, the first byte of which is 0.
C28_Witness ==
    /\ PassThrough /\ call.phase = "end"
    /\ ~call.first
    /\ call.b.data = << 0, 105, 1 >>

\* The place of the k-th byte of the payload that starts at p, read from the
\* bytes of the buffer, counted from 0; -1 when the payload or the buffer ends
\* before it.  A length with a high half other than 0 is longer than a buffer.
RECURSIVE PlaceOf(_, _, _)
PlaceOf(data, p, k) ==
    IF p + 4 > Len(data) THEN -1
    ELSE LET n == IF At(data, p) # 0 \/ At(data, p + 1) # 0 THEN 65536
                  ELSE 256 * At(data, p + 2) + At(data, p + 3)
         IN  IF n = 0 THEN -1
             ELSE IF k <= n THEN (IF p + 3 + k < Len(data) THEN p + 3 + k ELSE -1)
             ELSE IF p + 4 + n > Len(data) THEN -1
             ELSE PlaceOf(data, p + 4 + n, k - n)

\* The size of the program of the block at hand, from the second and the
\* third byte of the payload of its first segment.
PcompSize ==
    At(call.data, PlaceOf(call.data, call.start, 2))
        + 256 * At(call.data, PlaceOf(call.data, call.start, 3))

\* The first segment of a block of type 1 while its program is read.
ReadingProgram ==
    /\ call.fn = "extract" /\ call.phase = "prime"
    /\ call.b.pp.state \in {2, 3, 4}
    /\ IsOk(decompress_unmodeled_byte(call.data, call.b.pos, call.b.curr).err)

\* C29: in a block of type 1 the two bytes after the type byte are the size
\* of the program, low byte first; a size of 0 is Corrupt; state 5 is entered
\* right after the size-th byte that follows them; the end of the stream
\* before that is Corrupt; in state 5 every byte is read and none is written,
\* so every segment pushed for the block has empty data.
C29_ProgramMode ==
    [][/\ ReadingProgram =>
            LET c == decompress_unmodeled_byte(call.data, call.b.pos, call.b.curr).c
            IN  IF c < 0 THEN EndsCorrupt
                ELSE IF call.b.pp.state = 3
                         /\ At(call.data, PlaceOf(call.data, call.start, 2))
                                + 256 * c = 0
                    THEN EndsCorrupt
                ELSE /\ call'.phase = "prime"
                     /\ call'.b.pp.state \in {call.b.pp.state + 1, 4}
                     /\ call'.b.data = << >>
       /\ (call.fn = "extract" /\ call.phase # "done" /\ call.b.pp.state # 5
           /\ call'.phase # "done" /\ call'.b.pp.state = 5) =>
            /\ call.phase = "prime" /\ call.first
            /\ At(call.data, PlaceOf(call.data, call.start, 1)) = 1
            /\ PcompSize > 0
            /\ call'.b.pos = PlaceOf(call.data, call.start, 3 + PcompSize) + 1
       /\ (call.fn = "extract" /\ call.phase \in {"prime", "payload"}
           /\ call.b.pp.state = 5 /\ call'.phase # "done") =>
            /\ call'.b.pp.state = 5
            /\ call'.b.data = << >>
            /\ call'.phase \in {"payload", "end"}
       /\ (call.fn = "extract" /\ call.phase = "end" /\ call.b.pp.state = 5
           /\ call'.phase # "done") =>
            /\ Len(call'.b.out) = Len(call.b.out) + 1
            /\ call'.b.out[Len(call'.b.out)].data = << >>
            /\ call'.b.pp.state = 5]_vars

\* The end of the payload of the first segment of a block whose program has
\* 256 bytes (size low 0, size high 1); bytes followed the program.
C29_Witness ==
    /\ call.fn = "extract" /\ call.phase = "end"
    /\ call.b.pp.state = 5
    /\ call.first
    /\ PcompSize = 256
    /\ call.b.pos > PlaceOf(call.data, call.start, 3 + PcompSize) + 5
    /\ call.b.data = << >>

\* The walk is inside the segment loop of a block, now and after the step.
InBlock ==
    /\ call.fn = "extract"
    /\ call.phase \in {"marker", "names", "prime", "payload", "end"}
    /\ call'.phase \in {"marker", "names", "prime", "payload", "end"}

\* C30: only the first segment of a block is primed: payload bytes go to the
\* post-processor until its state is 1 or 5, before the loop that ends at the
\* end of the stream.  A later segment starts with the post-processor and the
\* chunk counter the segment before it left, and in a block of type 0 its
\* first payload byte is data.  A new block starts in state 0 with a chunk
\* counter of 0.
C30_PrimingFirstSegmentOnly ==
    [][/\ (InBlock /\ call.phase = "names") =>
            /\ call'.phase = IF call.b.first_segment THEN "prime" ELSE "payload"
            /\ ~call'.b.first_segment
            /\ call'.b.pp = call.b.pp
            /\ call'.b.curr = call.b.curr
       /\ (InBlock /\ call.phase = "prime") =>
            /\ call.first
            /\ IF call.b.pp.state \in {1, 5}
                   THEN /\ call'.phase = "payload"
                        /\ call'.b = call.b
               ELSE /\ call'.phase = "prime"
                    /\ call'.b.pos > call.b.pos
       /\ (InBlock /\ call.phase = "payload") => call.b.pp.state \in {1, 5}
       /\ (InBlock /\ call.phase \in {"marker", "end"}) =>
            /\ call'.b.pp = call.b.pp
            /\ call'.b.curr = call.b.curr
            /\ call'.b.first_segment = call.b.first_segment
       /\ (InBlock /\ call.phase = "payload" /\ ~call.first
           /\ call.b.pos = call.start /\ call.b.pp.state = 1
           /\ call'.phase = "payload") =>
            call'.b.data = << At(call.data, call.start + 4) >>
       /\ (call.fn = "extract" /\ call.phase = "scan" /\ call'.phase = "marker") =>
            /\ call'.b.pp.state = 0
            /\ call'.b.curr = H32(0, 0)
            /\ call'.b.first_segment]_vars

\* The second segment of a block of type 0 after its first payload byte, a 0
\* that is data.
C30_Witness ==
    /\ call.fn = "extract" /\ call.phase = "payload"
    /\ ~call.first
    /\ call.b.pp.state = 1
    /\ call.b.data = << 0 >>
    /\ call.b.pos = call.start + 5

\* The place after `left` components from cp on, each of a type in 1 .. 9 and
\* with its bytes before header_end; -1 when one of them is not.
RECURSIVE ComponentsEnd(_, _, _, _)
ComponentsEnd(data, cp, left, header_end) ==
    IF left = 0 THEN cp
    ELSE IF cp >= header_end \/ At(data, cp) \notin 1 .. 9 THEN -1
    ELSE LET sz == << 2, 3, 2, 3, 4, 6, 6, 3, 5 >>[At(data, cp)] IN
         IF cp + sz > header_end THEN -1
         ELSE ComponentsEnd(data, cp + sz, left - 1, header_end)

\* The header after the magic at `at` lies in the buffer, its components are
\* of known types and end inside it with a zero byte, at least one byte of
\* HCOMP follows and the last byte of the header is zero.
WellFormedHeader(data, at) ==
    LET p == at + 18
        hsize == At(data, p) + 256 * At(data, p + 1)
        header_end == p + hsize + 2
        e == ComponentsEnd(data, p + 7, At(data, p + 6), header_end)
    IN  /\ p + 7 <= Len(data)
        /\ header_end <= Len(data)
        /\ e # -1
        /\ e < header_end
        /\ At(data, e) = 0
        /\ hsize - (e + 1 - (p + 2)) >= 1
        /\ At(data, header_end - 1) = 0

\* The magics of the buffer with a level of 1 or 2 and a type of 1 after them.
Candidates(data) ==
    {at \in MagicPlaces(data) :
        /\ at + 18 <= Len(data)
        /\ At(data, at + 16) \in {1, 2}
        /\ At(data, at + 17) = 1}

\* C31: for a magic followed by a level of 1 or 2 and a type of 1,
\* parse_block_header returns a header exactly when every component has a
\* type in 1 .. 9 and its COMP_SIZE bytes inside the declared header, the byte
\* after the last component is inside the header and 0, hcomp_bytes is at
\* least 1 and the last byte of the header is 0; it returns Corrupt in every
\* other case, a header longer than the buffer among them.  The first such
\* magic the scan of inspect_bytes meets decides its result the same way.
C31_HeaderValidation ==
    call.fn = "inspect_bytes" =>
        /\ \A at \in Candidates(call.data) :
            LET r == parse_block_header(call.data, at) IN
            IF WellFormedHeader(call.data, at)
                THEN /\ IsOk(r.err) /\ r.some
                     /\ r.header.start_offset = at
                     /\ r.header.hcomp_bytes >= 1
                     /\ r.header.comp_bytes + r.header.hcomp_bytes = r.header.hsize
                     /\ r.consumed = 18 + r.header.hsize + 2
            ELSE ~r.some /\ r.err.kind = "Corrupt"
        /\ \A at \in Candidates(call.data) :
            (at + 18 < Len(call.data) /\ \A v \in MagicPlaces(call.data) : at <= v) =>
                IF WellFormedHeader(call.data, at)
                    THEN IsOk(call.ret.err) =>
                            /\ Len(call.ret.blocks) >= 1
                            /\ call.ret.blocks[1].start_offset = at
                ELSE call.ret.err.kind = "Corrupt" /\ call.ret.blocks = << >>

\* inspect_bytes has returned the header of a block with two components, of
\* the types 1 and 2.
C31_Witness ==
    /\ call.fn = "inspect_bytes"
    /\ call.data = MAGIC_16 \o << 2, 1, 12, 0, 0, 0, 0, 0, 2, 1, 5, 2, 0, 0, 0, 0 >>
    /\ WellFormedHeader(call.data, 0)
    /\ IsOk(call.ret.err)
    /\ Len(call.ret.blocks) = 1
    /\ call.ret.blocks[1].n_components = 2
    /\ call.ret.blocks[1].comp_bytes = 11
    /\ call.ret.blocks[1].hcomp_bytes = 1

\* A scan loop is at its head.
AtScan == call.fn \in {"inspect", "extract"} /\ call.phase = "scan"

\* The first magic at or after the cursor; -1 when there is none.
NextMagic ==
    LET places == {w \in MagicPlaces(call.data) : w >= call.s.i} IN
    IF places = {} THEN -1 ELSE CHOOSE w \in places : \A v \in places : w <= v

\* The magic at `at` is followed by a level other than 1 and 2 or by a type
\* other than 1.
Rejected(at) ==
    /\ at + 18 <= Len(call.data)
    /\ At(call.data, at + 16) \notin {1, 2} \/ At(call.data, at + 17) # 1

\* One turn of a scan loop: the call returns, or the cursor moves forward (in
\* extract_unmodeled_bytes, at the latest when the block it enters ends).
ScanTurn ==
    AtScan =>
        LET i == call.s.i
            at == NextMagic
            ends == call'.phase = "done"
            rejected == call'.phase = "scan" /\ call'.s.i = at + 1
                        /\ call'.s.out = call.s.out
        IN  IF ~(i + 18 < Len(call.data)) \/ at = -1
                THEN ends /\ IsOk(call'.ret.err)
            ELSE IF Rejected(at) \/ at + 18 > Len(call.data) THEN rejected
            ELSE IF ~WellFormedHeader(call.data, at)
                THEN ends /\ call'.ret.err.kind = "Corrupt"
            ELSE IF call.fn = "inspect"
                THEN /\ call'.phase = "scan"
                     /\ call'.s.i = at + 18 + from_le_bytes16(At(call.data, at + 18), At(call.data, at + 19)) + 2
                     /\ call'.s.i = call'.s.out[Len(call'.s.out)].segment_offset
                     /\ Len(call'.s.out) = Len(call.s.out) + 1
            ELSE IF At(call.data, at + 24) # 0
                THEN ends /\ call'.ret.err.kind = "InvalidFormat"
            ELSE /\ call'.phase = "marker"
                 /\ call'.s.i = i
                 /\ call'.at = at
                 /\ call'.b.pos = at + 18 + from_le_bytes16(At(call.data, at + 18), At(call.data, at + 19)) + 2

\* Inside a block extract_unmodeled_bytes leaves the cursor of the scan where
\* it is, and the end-of-block marker moves it past that marker.
BlockTurn ==
    (call.fn = "extract" /\ call.phase # "scan") =>
        IF call'.phase = "scan"
            THEN /\ call.phase = "marker"
                 /\ At(call.data, call.b.pos) = 255
                 /\ call'.s.i = call.b.pos + 1
                 /\ call.b.pos > call.at
        ELSE call'.phase = "done" \/ (call'.s.i = call.s.i /\ call'.at = call.at)

\* How far a running call has come: the cursor of the scan at the head of the
\* scan loop, the cursor of the block inside a block, and the place in the
\* segment loop.
Progress(c) ==
    8 * (IF c.phase = "scan" THEN c.s.i ELSE c.b.pos)
    + (CHOOSE k \in 1 .. 6 :
         << "scan", "marker", "names", "prime", "payload", "end" >>[k] = c.phase)

\* C32: every turn of the scan loop of inspect_bytes and of
\* extract_unmodeled_bytes that does not return moves the cursor strictly
\* forward: to one byte past the start of a magic rejected for its level or
\* type byte, to segment_offset after a header inspect_bytes accepts, and past
\* the end-of-block marker after a block extract_unmodeled_bytes decoded.
\* Both calls return: every step of a call that does not return it raises a
\* measure of its progress that the length of the buffer bounds, and leaves
\* it at a place from which the code goes on.
C32_ScanProgress ==
    [][/\ ScanTurn
       /\ BlockTurn
       /\ (AtScan /\ call'.phase = "scan") => call'.s.i > call.s.i
       /\ (call.fn = "extract" /\ call.phase = "scan" /\ call'.phase = "marker") =>
             call'.at >= call.s.i
       /\ (call.fn \in {"inspect", "extract"} /\ call'.phase # "done") =>
             /\ call'.fn = call.fn /\ call'.data = call.data
             /\ call'.phase \in (IF call.fn = "inspect" THEN {"scan"}
                                 ELSE {"scan", "marker", "names", "prime",
                                       "payload", "end"})
             /\ Progress(call') > Progress(call)
             /\ Progress(call') <= 8 * Len(call.data) + 6
             /\ call'.s.i <= Len(call.data)]_vars

\* inspect_bytes has moved its cursor from 0 to 1, past a magic rejected for
\* its level byte, and extract_unmodeled_bytes is past the end of a block
\* that ends before the end of the buffer.
C32_Witness ==
    \/ /\ call.fn = "inspect" /\ call.phase = "scan"
       /\ call.s.i = 1
       /\ Take(call.data, 18) = MAGIC_16 \o << 3, 1 >>
    \/ /\ call.fn = "extract" /\ call.phase = "scan"
       /\ call.s.block_index = 1
       /\ call.s.i > 0
       /\ At(call.data, call.s.i - 1) = 255
       /\ call.s.i < Len(call.data)

\* The positions before the cursor whose slice of m bytes lies in the block.
InsertedBefore(e, m) ==
    {p \in 0 .. Min2(e.i, Len(e.input)) - 1 : p + m <= Len(e.input)}

\* The slot of the slice of m bytes at p.
SlotOf(e, p, m) == MaskTo(hash_slice(Slice(e.input, p, p + m)), options.table_log)

\* The table holds, in the slot of every position of InsertedBefore, one more
\* than the largest of the positions of that slot, and nothing else.
HoldsLatest(table, e, m) ==
    /\ DOMAIN table = {SlotOf(e, p, m) : p \in InsertedBefore(e, m)}
    /\ \A p \in InsertedBefore(e, m) :
        LET held == table[SlotOf(e, p, m)] - 1 IN
        /\ held \in InsertedBefore(e, m)
        /\ held >= p
        /\ SlotOf(e, held, m) = SlotOf(e, p, m)
    /\ \A slot \in DOMAIN table : table[slot] # 0 /\ table[slot] - 1 < e.i

\* C33: at the start of every step of encode_lz77_block, and after the last
\* one, the nonzero slots of the primary table are those of the positions
\* p < i of the block with p + min_match <= len, literal or covered by a
\* match, and each holds one more than the largest such position of its
\* slot; the same holds of the secondary table with secondary_match, which
\* exists exactly when secondary_match > 0.  The tables of every block start
\* empty, and no slot holds a position at or after the cursor.
C33_TableInvariant ==
    pc = "encode" =>
        /\ enc.i <= Len(enc.input)
        /\ HoldsLatest(enc.tables.h1, enc, options.min_match)
        /\ enc.tables.h2.some <=> options.secondary_match > 0
        /\ enc.tables.h2.some =>
            HoldsLatest(enc.tables.h2.v, enc, options.secondary_match)
        /\ enc.i = 0 =>
            enc.tables.h1 = EmptyTable /\ enc.tables.h2.v = EmptyTable

\* In the block "aaaa" under min_match 1 and secondary_match 2 the step at
\* cursor 1 has emitted a match of 3 bytes, and the tables hold the last
\* positions the match covered: 3 in the primary, 2 in the secondary table.
C33_Witness ==
    /\ pc = "encode"
    /\ enc.input = << 97, 97, 97, 97 >>
    /\ options.min_match = 1 /\ options.secondary_match = 2
    /\ enc.i = 4 /\ enc.emitted /\ enc.best.len = 3
    /\ enc.tables.h1[SlotOf(enc, 0, 1)] = 4
    /\ enc.tables.h2.v[SlotOf(enc, 0, 2)] = 3

\* The options with another search_log.
WithSearchLog(o, sl) == [o EXCEPT !.search_log = sl]

\* The slot the search at the cursor starts from.
OwnSlot(e) == SlotOf(e, e.i, options.min_match)

\* The bytes that the position held in a slot has in common with the cursor,
\* counted as the search counts them.
HeldLength(e, slot) ==
    match_len(e.input, e.tables.h1[slot] - 1, e.i,
              Min2(Len(e.input) - e.i, 255 + options.min_match), 0)

\* C34: with secondary_match = 0 the bytes encode_lz77_block gives for a block
\* are the same under every search_log in 0 .. 10, all else equal: at every
\* step a position held in a slot other than the one of the hash at the
\* cursor matches fewer than min_match bytes, so no probe of another slot
\* changes what is emitted.
C34_SearchLogIrrelevant ==
    (pc = "encode" /\ options.secondary_match = 0) =>
        /\ enc.i + options.min_match <= Len(enc.input) =>
            \A slot \in DOMAIN enc.tables.h1 \ {OwnSlot(enc)} :
                HeldLength(enc, slot) < options.min_match
        /\ enc.i >= Len(enc.input) =>
            \A sl \in 0 .. 10 :
                encode_lz77_block(enc.input, WithSearchLog(options, sl))
                    = encode_finish(enc)

\* "aabac" has been encoded under search_log 5 with a match in it, the table
\* holds positions in three slots, and the encoding under search_log 10,
\* which probes every slot of the table, is the same.
C34_Witness ==
    /\ pc = "encode"
    /\ options.secondary_match = 0 /\ options.search_log = 5
    /\ options.min_match = 1
    /\ enc.input = << 97, 97, 98, 97, 99 >>
    /\ enc.i >= Len(enc.input)
    /\ Cardinality(DOMAIN enc.tables.h1) = 3
    /\ encode_finish(enc) # emit_literals(<< >>, enc.input)
    /\ encode_lz77_block(enc.input, WithSearchLog(options, 10)) = encode_finish(enc)
    /\ encode_lz77_block(enc.input, WithSearchLog(options, 0)) = encode_finish(enc)

\* The native extractor takes the archive of the call.
NativeTakes ==
    IsOk(extract_unmodeled_bytes(call.data, call.overflow_checks).err)

\* C35: extract-zpaq tries the native extractor first and runs the reference
\* binary only after the native extractor has refused the archive for a
\* modeled block, the fallback being allowed and the binary there; an archive
\* the native extractor takes is extracted natively, whether or not the
\* reference binary is there.
C35_NativeFirst ==
    (call.fn = "run_extract_zpaq" /\ call.phase = "done") =>
        /\ call.ran # << >> /\ call.ran[1] = "native"
        /\ Len(call.ran) = 2 =>
            /\ call.ran[2] = "reference"
            /\ call.allow_reference_fallback /\ call.reference_bin_exists
            /\ extract_unmodeled_bytes(call.data, call.overflow_checks).err
                   = ModeledBlockError
        /\ NativeTakes => call.ran = << "native" >>

\* What run_extract_zpaq does: the reference binary alone when the fallback
\* is allowed and the binary exists, whatever the archive holds, and the
\* native extractor alone otherwise, its error being the error of the call.
C35_ReferenceWhenPresent ==
    (call.fn = "run_extract_zpaq" /\ call.phase = "done") =>
        IF call.allow_reference_fallback /\ call.reference_bin_exists
            THEN call.ran = << "reference" >> /\ call.files = << >>
        ELSE /\ call.ran = << "native" >>
             /\ call.ret = extract_unmodeled_bytes(call.data, call.overflow_checks).err
             /\ IsOk(call.ret) <=> NativeTakes

\* An archive of one unmodeled block, which the native extractor takes, has
\* been handed to the reference binary, and the native extractor has not run.
C35_ReferenceOnUnmodeled ==
    /\ call.fn = "run_extract_zpaq" /\ call.phase = "done"
    /\ call.data = UnmodeledBlock(PassSegment \o << 254 >>)
    /\ NativeTakes
    /\ call.ran = << "reference" >>

\* ---- the specifications

\* compress of every input under every choice of options, and decompress of
\* what it wrote.
Next ==
    \/ Compress(CompressOptions)
    \/ CompressRead
    \/ EncodeStep
    \/ CompressWrite
    \/ CompressEnd
    \/ DecompressOwn
    \/ DecompressHeader
    \/ DecompressBlock

Spec == Init /\ [][Next]_vars

\* decompress of damaged and of hand-made streams.
NextStreams ==
    \/ Compress(StreamOptions)
    \/ CompressRead
    \/ EncodeStep
    \/ CompressWrite
    \/ CompressEnd
    \/ DecompressOwn
    \/ DecompressTruncated
    \/ DecompressSubstituted
    \/ DecompressCrafted
    \/ DecompressHeader
    \/ DecompressBlock

SpecStreams == Init /\ [][NextStreams]_vars

\* compress of inputs with long matches.
NextLong ==
    \/ CompressCall(LongOptions, LongInputs)
    \/ CompressRead
    \/ EncodeStep
    \/ CompressWrite
    \/ CompressEnd

SpecLong == Init /\ [][NextLong]_vars

\* Single calls of the functions of the codec.
NextCalls ==
    \/ CallDecode
    \/ CallEmitMatch
    \/ CallEmitLiterals
    \/ CallEncode

SpecCalls == Init /\ [][NextCalls]_vars

\* Single calls of the ZPAQ scanner.
NextZpaq ==
    \/ CallInspect
    \/ InspectAgain
    \/ CallExtract

SpecZpaq == Init /\ [][NextZpaq]_vars

\* extract_unmodeled_bytes, step by step, on whole and on damaged archives.
NextExtract ==
    \/ ExtractCall
    \/ ExtractScan
    \/ ExtractMarker
    \/ ExtractNames
    \/ ExtractPrime
    \/ ExtractPayload
    \/ ExtractEnd

SpecExtract == Init /\ [][NextExtract]_vars

\* The scan loops of inspect_bytes and of extract_unmodeled_bytes, step by
\* step.
NextScan ==
    \/ InspectCall
    \/ InspectScan
    \/ ExtractCall
    \/ ExtractScan
    \/ ExtractMarker
    \/ ExtractNames
    \/ ExtractPrime
    \/ ExtractPayload
    \/ ExtractEnd

SpecScan == Init /\ [][NextScan]_vars

\* extract-zpaq on whole, on damaged and on modeled archives, with and without
\* the reference binary.
NextCli ==
    \/ ExtractZpaqCall
    \/ ExtractZpaqReference
    \/ ExtractZpaqNative

SpecCli == Init /\ [][NextCli]_vars


====
